---- MODULE Spec2Model ----
(***************************************************************************)
(* Notification intake of the Nylas Pub/Sub integration server             *)
(* (src/index.ts): the challenge handshake, the direct webhook path with   *)
(* its signature check, and the Pub/Sub relay path with its base64         *)
(* envelope, as Fastify runs them: content-type parser, preHandler hook,   *)
(* route handler; the send-email route with the call it makes to the       *)
(* provider (MailSpec); the envelope codec on its own (CodecSpec); two      *)
(* connections served at once (ConcurrentSpec); and the setup scripts      *)
(* against the cloud project and the running server (SetupSpec).           *)
(*                                                                         *)
(* Representation.  A text (request body, decoded relay payload) is a      *)
(* sequence of character codes.  The members of a JSON object literal are  *)
(* abbreviated to ONE character that names the document (DocCode,          *)
(* DocTable), so the text of a document is "{" code "}", optionally with   *)
(* insignificant whitespace; a JSON string literal is its characters       *)
(* between two quotes.  Strings inside documents (notification types,      *)
(* challenge tokens) are sequences of lexemes.  A base64 character is      *)
(* named by its index in the standard alphabet.  Epoch seconds are small   *)
(* enough for their milliseconds to fit the checker's integers.            *)
(***************************************************************************)
EXTENDS Integers, Sequences, FiniteSets, TLC

(***************************************************************************)
(* JavaScript values                                                       *)
(***************************************************************************)
Undef == [t |-> "undefined"]
Null == [t |-> "null"]
Thrown == [t |-> "throw"]
Str(s) == [t |-> "string", s |-> s]
Num(n) == [t |-> "number", n |-> n]
NaN == [t |-> "number", nan |-> TRUE]
Bool(b) == [t |-> "boolean", b |-> b]
Obj(f) == [t |-> "object", f |-> f]
Arr(a) == [t |-> "array", a |-> a]

IsNaN(v) == v.t = "number" /\ "nan" \in DOMAIN v

\* ToBoolean: what `if (v)`, `!v`, `a && b`, `a || b` test.
Truthy(v) ==
  CASE v.t = "undefined" -> FALSE
    [] v.t = "null" -> FALSE
    [] v.t = "string" -> Len(v.s) > 0
    [] v.t = "number" -> ~IsNaN(v) /\ v.n # 0
    [] v.t = "boolean" -> v.b
    [] OTHER -> TRUE

\* Property read `v.k`: a TypeError on undefined and null, undefined for a
\* property the value does not have.  A fault already raised propagates.
Get(v, k) ==
  CASE v.t = "throw" -> Thrown
    [] v.t \in {"undefined", "null"} -> Thrown
    [] v.t = "object" -> IF k \in DOMAIN v.f THEN v.f[k] ELSE Undef
    [] v.t = "array" -> IF k = "length" THEN Num(Len(v.a)) ELSE Undef
    [] v.t = "string" -> IF k = "length" THEN Num(Len(v.s)) ELSE Undef
    [] OTHER -> Undef

\* Optional chaining `v?.k`: undefined instead of a TypeError.
GetOpt(v, k) ==
  IF v.t \in {"undefined", "null"} THEN Undef ELSE Get(v, k)

\* `a || b`
OrElse(a, b) == IF a.t = "throw" THEN Thrown ELSE IF Truthy(a) THEN a ELSE b

(***************************************************************************)
(* Base64 and UTF-8                                                        *)
(***************************************************************************)
SP == 32
QUOTE == 34
LBRACE == 123
RBRACE == 125
NullText == <<110, 117, 108, 108>>

B64Pad == 64     \* '='
B64Bang == 65    \* '!', outside both alphabets
B64Dash == 66    \* '-', URL-safe 62
B64Under == 67   \* '_', URL-safe 63

\* The value of a base64 character, -1 for an illegal one.
Unbase64(c) ==
  IF c \in 0..63 THEN c
  ELSE IF c = B64Dash THEN 62
  ELSE IF c = B64Under THEN 63
  ELSE -1

\* Illegal characters are skipped and '=' ends the input.
RECURSIVE Sextets(_)
Sextets(data) ==
  IF data = <<>> \/ Head(data) = B64Pad THEN <<>>
  ELSE IF Unbase64(Head(data)) < 0 THEN Sextets(Tail(data))
  ELSE <<Unbase64(Head(data))>> \o Sextets(Tail(data))

RECURSIVE GroupBytes(_)
GroupBytes(x) ==
  IF Len(x) >= 4
  THEN << x[1] * 4 + x[2] \div 16,
          (x[2] % 16) * 16 + x[3] \div 4,
          (x[3] % 4) * 64 + x[4] >> \o GroupBytes(SubSeq(x, 5, Len(x)))
  ELSE IF Len(x) = 3
  THEN << x[1] * 4 + x[2] \div 16, (x[2] % 16) * 16 + x[3] \div 4 >>
  ELSE IF Len(x) = 2
  THEN << x[1] * 4 + x[2] \div 16 >>
  ELSE <<>>

\* A decoder that reads '=' as the sextet 0 instead of the end of input.
Base64DecodePadAsZero(data) ==
  GroupBytes([i \in 1..Len(data) |->
                IF data[i] = B64Pad \/ Unbase64(data[i]) < 0 THEN 0
                ELSE Unbase64(data[i])])

Base64Decode(data) == GroupBytes(Sextets(data))

\* Buffer.from(text).toString('base64'): the standard alphabet with padding.
RECURSIVE Base64Encode(_)
Base64Encode(b) ==
  IF Len(b) >= 3
  THEN << b[1] \div 4, (b[1] % 4) * 16 + b[2] \div 16,
          (b[2] % 16) * 4 + b[3] \div 64, b[3] % 64 >>
       \o Base64Encode(SubSeq(b, 4, Len(b)))
  ELSE IF Len(b) = 2
  THEN << b[1] \div 4, (b[1] % 4) * 16 + b[2] \div 16, (b[2] % 16) * 4, B64Pad >>
  ELSE IF Len(b) = 1
  THEN << b[1] \div 4, (b[1] % 4) * 16, B64Pad, B64Pad >>
  ELSE <<>>

\* The UTF-8 bytes of a text (a sequence of Unicode scalar values), as the
\* publisher puts them into the envelope.
RECURSIVE Utf8Encode(_)
Utf8Encode(x) ==
  IF x = <<>> THEN <<>>
  ELSE LET cp == Head(x) IN
    ( IF cp < 128 THEN <<cp>>
      ELSE IF cp < 2048 THEN <<192 + (cp \div 64), 128 + (cp % 64)>>
      ELSE IF cp < 65536
      THEN <<224 + (cp \div 4096), 128 + ((cp \div 64) % 64), 128 + (cp % 64)>>
      ELSE << 240 + (cp \div 262144), 128 + ((cp \div 4096) % 64),
              128 + ((cp \div 64) % 64), 128 + (cp % 64) >> )
    \o Utf8Encode(Tail(x))

Replacement == 65533

IsCont(b) == b \in 128..191

\* UTF-8 decoding with U+FFFD for every ill-formed byte.
RECURSIVE Utf8ToString(_)
Utf8ToString(b) ==
  IF b = <<>> THEN <<>>
  ELSE LET h == Head(b) n == Len(b) IN
    IF h < 128 THEN <<h>> \o Utf8ToString(Tail(b))
    ELSE IF h \in 194..223 /\ n >= 2 /\ IsCont(b[2])
    THEN <<(h - 192) * 64 + (b[2] - 128)>> \o Utf8ToString(SubSeq(b, 3, n))
    ELSE IF h \in 224..239 /\ n >= 3 /\ IsCont(b[2]) /\ IsCont(b[3])
            /\ (h = 224 => b[2] >= 160) /\ (h = 237 => b[2] <= 159)
    THEN <<(h - 224) * 4096 + (b[2] - 128) * 64 + (b[3] - 128)>>
         \o Utf8ToString(SubSeq(b, 4, n))
    ELSE IF h \in 240..244 /\ n >= 4 /\ IsCont(b[2]) /\ IsCont(b[3]) /\ IsCont(b[4])
            /\ (h = 240 => b[2] >= 144) /\ (h = 244 => b[2] <= 143)
    THEN <<(h - 240) * 262144 + (b[2] - 128) * 4096 + (b[3] - 128) * 64 + (b[4] - 128)>>
         \o Utf8ToString(SubSeq(b, 5, n))
    ELSE <<Replacement>> \o Utf8ToString(Tail(b))

\* The envelope decode step of the relay path.
DecodeData(data) == Str(Utf8ToString(Base64Decode(data.s)))

(***************************************************************************)
(* The documents of the model                                              *)
(***************************************************************************)
\* A property map without the property k.
Drop(o, k) == Obj([x \in DOMAIN o.f \ {k} |-> o.f[x]])

\* A property map with the property k set to v.
With(o, k, v) == Obj([x \in DOMAIN o.f \cup {k} |-> IF x = k THEN v ELSE o.f[x]])

EmptyObj == Obj(<<>>)

TransformedSuffix == <<".", "transformed">>

MessageCreated == <<"message", ".", "created">>
MessageUpdated == <<"message", ".", "updated">>
EventCreated == <<"event", ".", "created">>
EventUpdated == <<"event", ".", "updated">>
ContactCreated == <<"contact", ".", "created">>
ContactUpdated == <<"contact", ".", "updated">>
FolderDeleted == <<"folder", ".", "deleted">>

Recipient(e, n) == Obj([email |-> Str(<<e>>), name |-> Str(<<n>>)])

MsgFull ==
  Obj([id |-> Str(<<"m1">>),
       from |-> Arr(<<Recipient("ann@x", "Ann")>>),
       to |-> Arr(<<Recipient("bob@x", "Bob"), Recipient("cy@x", "Cy")>>),
       subject |-> Str(<<"hello">>),
       date |-> Num(1700000),
       thread_id |-> Str(<<"t1">>),
       folders |-> Arr(<<Str(<<"INBOX">>)>>),
       unread |-> Bool(TRUE),
       body |-> Str(<<"text">>)])

EvtFull ==
  Obj([id |-> Str(<<"e1">>),
       title |-> Str(<<"standup">>),
       calendar_id |-> Str(<<"c1">>),
       when |-> Obj([start_time |-> Num(1700000), end_time |-> Num(1703600)]),
       participants |-> Arr(<<Recipient("ann@x", "Ann")>>)])

\* The summarized sub-fields of a message and of an event.
MsgFields == <<"from", "to", "subject", "date", "thread_id", "folders", "unread", "body">>
EvtFields == <<"title", "calendar_id", "when", "participants">>

\* The full object, the object without each one sub-field, the bare object.
MsgObjects ==
  <<MsgFull>> \o [i \in 1..Len(MsgFields) |-> Drop(MsgFull, MsgFields[i])]
  \o <<EmptyObj>>

EvtObjects ==
  <<EvtFull>> \o [i \in 1..Len(EvtFields) |-> Drop(EvtFull, EvtFields[i])]
  \o << With(EvtFull, "when", Obj([end_time |-> Num(1703600)])),
        With(EvtFull, "when", Obj([start_time |-> Num(1700000)])),
        EmptyObj >>

\* A notification document (interface NylasNotification).
Notification(type, object) ==
  Obj([specversion |-> Str(<<"1.0">>),
       type |-> Str(type),
       source |-> Str(<<"/nylas">>),
       id |-> Str(<<"n1">>),
       data |-> Obj([application_id |-> Str(<<"app">>), object |-> object])])

NotificationTable ==
  [i \in 1..Len(MsgObjects) |-> Notification(MessageCreated, MsgObjects[i])]
  \o [i \in 1..Len(MsgObjects) |-> Notification(MessageUpdated, MsgObjects[i])]
  \o [i \in 1..Len(EvtObjects) |-> Notification(EventCreated, EvtObjects[i])]
  \o << Notification(MessageCreated \o TransformedSuffix, MsgFull),
        Notification(MessageCreated \o TransformedSuffix, Drop(MsgFull, "date")),
        Notification(MessageUpdated \o TransformedSuffix, MsgFull),
        Notification(EventCreated \o TransformedSuffix, EvtFull),
        Notification(EventUpdated, EvtFull),
        Notification(ContactCreated, EmptyObj),
        Notification(ContactUpdated, EmptyObj),
        Notification(FolderDeleted, EmptyObj),
        Notification(MessageCreated \o TransformedSuffix \o <<".", "v2">>, MsgFull),
        Notification(<<"message", ".", "transformed", "x", ".", "created">>, MsgFull),
        Notification(<<>>, MsgFull),
        Drop(Notification(MessageCreated, MsgFull), "type"),
        Drop(Notification(MessageCreated, MsgFull), "data"),
        With(Notification(MessageCreated, MsgFull), "data", EmptyObj),
        With(Notification(MessageCreated, MsgFull), "webhook_delivery_attempt", Num(3)),
        Drop(Notification(FolderDeleted, EmptyObj), "data"),
        Drop(Notification(MessageUpdated, MsgFull), "data") >>

\* The bytes a document of the table is abbreviated to.
DocCode(i) == SP + i

\* The JSON text of a document, compact or with insignificant whitespace.
DocText(code, spaced) ==
  IF spaced THEN <<SP, LBRACE, SP, code, RBRACE, SP>> ELSE <<LBRACE, code, RBRACE>>

\* A relay envelope (interface PubSubMessage) around the data string.
Envelope(data) ==
  Obj([message |-> Obj([data |-> data, messageId |-> Str(<<"d1">>),
                        publishTime |-> Str(<<"now">>)]),
       subscription |-> Str(<<"sub">>)])

NotificationData(i) == Str(Base64Encode(DocText(DocCode(i), FALSE)))

\* One character of the data replaced, inserted or dropped.
Replace(s, i, c) == [s EXCEPT ![i] = c]
Insert(s, i, c) == SubSeq(s, 1, i - 1) \o <<c>> \o SubSeq(s, i, Len(s))

EnvelopeTable ==
  [i \in 1..Len(NotificationTable) |-> Envelope(NotificationData(i))]
  \o << Envelope(Str(Base64Encode(DocText(DocCode(1), TRUE)))),
        Envelope(Str(Base64Encode(<<LBRACE, LBRACE>>))),
        Envelope(Str(Base64Encode(<<>>))),
        Envelope(Str(Insert(NotificationData(1).s, 2, B64Bang))),
        Envelope(Str(<<B64Bang, B64Bang, B64Bang>>)),
        Envelope(Str(SubSeq(NotificationData(1).s, 1, 3))),
        Envelope(Str(Replace(NotificationData(1).s, 4, B64Dash))),
        Envelope(Str(<<B64Pad>> \o NotificationData(1).s)),
        Envelope(Undef),
        Envelope(Null),
        Obj([subscription |-> Str(<<"sub">>)]),
        Obj([message |-> Null, subscription |-> Str(<<"sub">>)]),
        Obj([message |-> Str(<<>>), subscription |-> Str(<<"sub">>)]) >>

\* The send-email requests (interface SendEmailRequest): the body the README
\* shows, the same with reply_to as the interface declares it, the required
\* fields alone, and requests with a field missing, empty or of another
\* shape.
EmailMinimal ==
  Obj([to |-> Arr(<<Recipient("to@x", "To")>>),
       subject |-> Str(<<"hi">>),
       body |-> Str(<<"text">>)])

\* The request body of the README: cc and bcc as lists, reply_to as one
\* recipient object.
EmailReadme ==
  With(With(With(EmailMinimal, "cc", Arr(<<Recipient("cc@x", "CC")>>)),
            "bcc", Arr(<<Obj([email |-> Str(<<"bcc@x">>)])>>)),
       "reply_to", Recipient("reply@x", "Reply"))

EmailTable ==
  << EmailMinimal,
     EmailReadme,
     With(EmailReadme, "reply_to", Arr(<<Recipient("reply@x", "Reply")>>)),
     With(EmailMinimal, "cc", Arr(<<Recipient("cc@x", "CC")>>)),
     With(EmailMinimal, "bcc", Arr(<<Obj([email |-> Str(<<"bcc@x">>)])>>)),
     With(EmailMinimal, "reply_to", Recipient("reply@x", "Reply")),
     Drop(EmailMinimal, "to"),
     Drop(EmailMinimal, "subject"),
     Drop(EmailMinimal, "body"),
     Drop(EmailReadme, "to"),
     With(EmailMinimal, "to", Arr(<<>>)),
     With(EmailMinimal, "to", Str(<<"to@x">>)),
     With(EmailMinimal, "to", Recipient("to@x", "To")),
     With(EmailMinimal, "to", Arr(<<Null>>)),
     With(EmailMinimal, "subject", Str(<<>>)),
     With(EmailMinimal, "body", Str(<<>>)),
     With(EmailMinimal, "cc", Arr(<<>>)),
     With(EmailMinimal, "cc", Str(<<"cc@x">>)),
     With(EmailMinimal, "send_draft", Bool(FALSE)),
     With(EmailMinimal, "tracking_options", Obj([opens |-> Bool(TRUE)])) >>

DocTable == NotificationTable \o EnvelopeTable \o EmailTable

(***************************************************************************)
(* JSON.parse / JSON.stringify on the abbreviated texts                    *)
(***************************************************************************)
RECURSIVE TrimLeft(_)
TrimLeft(s) == IF s # <<>> /\ Head(s) = SP THEN TrimLeft(Tail(s)) ELSE s

RECURSIVE TrimRight(_)
TrimRight(s) ==
  IF s # <<>> /\ s[Len(s)] = SP THEN TrimRight(SubSeq(s, 1, Len(s) - 1)) ELSE s

NotSpace(b) == b # SP

\* JSON.parse(text): insignificant whitespace
\* is dropped, a string literal keeps its bytes, anything else is a
\* SyntaxError (Thrown).
JSONparse(text) ==
  LET trimmed == TrimRight(TrimLeft(text))
      toks == SelectSeq(trimmed, NotSpace)
  IN  IF Len(trimmed) >= 2 /\ trimmed[1] = QUOTE /\ trimmed[Len(trimmed)] = QUOTE
         /\ \A i \in 2..(Len(trimmed) - 1) : trimmed[i] # QUOTE
      THEN Str(SubSeq(trimmed, 2, Len(trimmed) - 1))
      ELSE IF toks = NullText THEN Null
      ELSE IF toks = <<LBRACE, RBRACE>> THEN Obj(<<>>)
      ELSE IF Len(toks) = 3 /\ toks[1] = LBRACE /\ toks[3] = RBRACE
              /\ (toks[2] - SP) \in 1..Len(DocTable)
      THEN DocTable[toks[2] - SP]
      ELSE Thrown

\* JSON.stringify(value): the compact text of the value; undefined for
\* undefined (not a string).
JSONstringify(v) ==
  CASE v.t = "undefined" -> Undef
    [] v.t = "null" -> Str(NullText)
    [] v.t = "string" -> Str(<<QUOTE>> \o v.s \o <<QUOTE>>)
    [] v.t = "object" ->
         IF DOMAIN v.f = {} THEN Str(<<LBRACE, RBRACE>>)
         ELSE Str(DocText(DocCode(CHOOSE i \in 1..Len(DocTable) : DocTable[i] = v), FALSE))
    [] OTHER -> Undef

(***************************************************************************)
(* crypto.createHmac('sha256', key).update(msg).digest('hex')              *)
(***************************************************************************)
\* The 64 hex characters of a digest are one element that names the key and
\* the message (no collisions) and the letter case of the encoding.
HexDigest(key, msg, upper) == Str(<<[mac |-> <<key, msg>>, upper |-> upper]>>)

HmacSha256Hex(key, msg) == HexDigest(key.s, msg.s, FALSE)

(***************************************************************************)
(* The expressions the handlers evaluate                                   *)
(***************************************************************************)
\* One console line: a label and the values printed after it.  A fault
\* raised while a value is evaluated takes the place of the line.
Line(label, args) ==
  IF \E i \in 1..Len(args) : args[i].t = "throw" THEN Thrown
  ELSE [t |-> "line", line |-> label, args |-> args]

\* `if (c) console.log(...)`
IfLine(c, line) ==
  IF c.t = "throw" THEN <<Thrown>> ELSE IF Truthy(c) THEN <<line>> ELSE <<>>

\* A block of statements runs until the first fault.
Run(script) ==
  LET faults == {i \in 1..Len(script) : script[i].t = "throw"}
      n == IF faults = {} THEN Len(script) + 1
           ELSE CHOOSE i \in faults : \A j \in faults : i <= j
  IN  [log |-> SubSeq(script, 1, n - 1), threw |-> faults # {}]

\* `v[0]`
First(v) ==
  CASE v.t = "throw" -> Thrown
    [] v.t \in {"undefined", "null"} -> Thrown
    [] v.t = "array" -> IF Len(v.a) > 0 THEN v.a[1] ELSE Undef
    [] OTHER -> Undef

\* `v?.[0]`
FirstOpt(v) == IF v.t \in {"undefined", "null"} THEN Undef ELSE First(v)

RECURSIVE JoinStrings(_)
JoinStrings(a) ==
  IF a = <<>> THEN <<>>
  ELSE IF Len(a) = 1 THEN a[1].s
  ELSE a[1].s \o <<", ">> \o JoinStrings(Tail(a))

\* `v.join(', ')` on a list of strings; a TypeError on a value without join.
Join(v) ==
  CASE v.t = "array" -> Str(JoinStrings(v.a))
    [] OTHER -> Thrown

JoinOpt(v) == IF v.t \in {"undefined", "null"} THEN Undef ELSE Join(v)

\* `v.map((r) => r.email).join(', ')`
MapEmailJoin(v) ==
  CASE v.t = "array" ->
         IF \E i \in 1..Len(v.a) : v.a[i].t \in {"undefined", "null"} THEN Thrown
         ELSE Join(Arr([i \in 1..Len(v.a) |->
                          LET e == Get(v.a[i], "email")
                          IN  IF e.t = "string" THEN e ELSE Str(<<>>)]))
    [] OTHER -> Thrown

MapEmailJoinOpt(v) == IF v.t \in {"undefined", "null"} THEN Undef ELSE MapEmailJoin(v)

PreviewLen == 100

\* `v.substring(0, 100)`
Preview(v) ==
  CASE v.t = "string" ->
         Str(SubSeq(v.s, 1, IF PreviewLen < Len(v.s) THEN PreviewLen ELSE Len(v.s)))
    [] OTHER -> Thrown

\* ToNumber
ToNumber(v) ==
  CASE v.t = "number" -> v
    [] v.t = "null" -> Num(0)
    [] v.t = "boolean" -> Num(IF v.b THEN 1 ELSE 0)
    [] v.t = "string" -> IF v.s = <<>> THEN Num(0) ELSE NaN
    [] OTHER -> NaN

\* `v * 1000`
Times1000(v) ==
  IF v.t = "throw" THEN Thrown
  ELSE LET x == ToNumber(v) IN IF IsNaN(x) THEN NaN ELSE Num(x.n * 1000)

\* `new Date(ms).toISOString()`: a RangeError for an invalid time value.
ToISOString(ms) ==
  IF ms.t = "throw" \/ IsNaN(ms) THEN Thrown ELSE [t |-> "string", iso |-> ms.n]

\* `c ? new Date(c * 1000).toISOString() : 'unknown'`
TimeOrUnknown(c) ==
  IF c.t = "throw" THEN Thrown
  ELSE IF Truthy(c) THEN ToISOString(Times1000(c)) ELSE Str(<<"unknown">>)

\* `c ? 'Unread' : 'Read'`
UnreadStatus(c) ==
  IF c.t = "throw" THEN Thrown
  ELSE IF Truthy(c) THEN Str(<<"Unread">>) ELSE Str(<<"Read">>)

\* `type.split('.transformed')[0]`: the text before the FIRST occurrence of
\* the separator, the whole text when it does not occur.
RECURSIVE BeforeFirst(_, _)
BeforeFirst(s, sep) ==
  IF Len(s) < Len(sep) THEN s
  ELSE IF SubSeq(s, 1, Len(sep)) = sep THEN <<>>
  ELSE <<Head(s)>> \o BeforeFirst(Tail(s), sep)

BaseType(type) ==
  IF type.t = "string" THEN Str(BeforeFirst(type.s, TransformedSuffix)) ELSE Thrown

\* `v.length > 0`
NonEmpty(v) ==
  IF v.t = "throw" THEN Thrown
  ELSE LET n == Get(v, "length")
       IN  Bool(n.t = "number" /\ ~IsNaN(n) /\ n.n > 0)

\* `a && b`
AndAlso(a, b) == IF a.t = "throw" THEN Thrown ELSE IF Truthy(a) THEN b ELSE a

\* A statement that follows the evaluation of v.
After(v, line) == IF v.t = "throw" THEN Thrown ELSE line

\* `if (c) { ...lines }`
IfBlock(c, lines) ==
  IF c.t = "throw" THEN <<Thrown>> ELSE IF Truthy(c) THEN lines ELSE <<>>

(***************************************************************************)
(* POST /webhook/nylas: classification and dispatch                        *)
(***************************************************************************)
WebhookMessageCreated(payload) ==
  LET messageData == Get(Get(payload, "data"), "object") IN
  << After(messageData, Line("New message received:", <<>>)),
     Line("- ID:", <<Get(messageData, "id")>>),
     Line("- From:",
          << OrElse(GetOpt(FirstOpt(Get(messageData, "from")), "email"), Str(<<"unknown">>)),
             OrElse(GetOpt(FirstOpt(Get(messageData, "from")), "name"), Str(<<"unnamed">>)) >>),
     Line("- To:", <<OrElse(MapEmailJoinOpt(Get(messageData, "to")), Str(<<"unknown">>))>>),
     Line("- Subject:", <<OrElse(Get(messageData, "subject"), Str(<<"No subject">>))>>),
     Line("- Date:", <<ToISOString(Times1000(Get(messageData, "date")))>>) >>

WebhookMessageUpdated(payload) ==
  LET updatedMessage == Get(Get(payload, "data"), "object") IN
  << After(updatedMessage, Line("Message updated:", <<>>)),
     Line("- ID:", <<Get(updatedMessage, "id")>>),
     Line("- Thread ID:", <<Get(updatedMessage, "thread_id")>>),
     Line("- Current folders:",
          <<OrElse(JoinOpt(Get(updatedMessage, "folders")), Str(<<"none">>))>>),
     Line("- Unread status:", <<UnreadStatus(Get(updatedMessage, "unread"))>>) >>

WebhookEventCreated(payload) ==
  LET eventData == Get(Get(payload, "data"), "object")
      when == Get(eventData, "when")
  IN
  << After(eventData, Line("New event created:", <<>>)),
     Line("- ID:", <<Get(eventData, "id")>>),
     Line("- Title:", <<OrElse(Get(eventData, "title"), Str(<<"Untitled event">>))>>),
     Line("- Calendar ID:", <<Get(eventData, "calendar_id")>>) >>
  \o IfBlock(when,
       << Line("- Start:", <<TimeOrUnknown(Get(when, "start_time"))>>),
          Line("- End:", <<TimeOrUnknown(Get(when, "end_time"))>>) >>)
  \o << Line("- Participants:",
             <<OrElse(GetOpt(Get(eventData, "participants"), "length"), Num(0))>>) >>

\* The default branch raising an error for a type it does not know.
WebhookDefaultThrows(type) == <<Thrown>>

\* Lines 224-225: the default branch of the switch.
WebhookDefault(type) == <<Line("no specific handling implemented", <<type>>)>>

\* The case of the switch on payload.type that is taken.
WebhookCase(type) ==
  CASE type = Str(MessageCreated) -> "message.created"
    [] type = Str(MessageUpdated) -> "message.updated"
    [] type = Str(EventCreated) -> "event.created"
    [] OTHER -> "default"

WebhookSwitch(payload) ==
  LET type == Get(payload, "type")
      case == WebhookCase(type)
  IN  CASE case = "message.created" -> WebhookMessageCreated(payload)
        [] case = "message.updated" -> WebhookMessageUpdated(payload)
        [] case = "event.created" -> WebhookEventCreated(payload)
        [] OTHER -> WebhookDefault(type)

\* The guard with the type left out of the condition.
WebhookDispatchesAnyPayload(payload) == Truthy(payload)

\* Lines 171-227: the notification is logged, then dispatched on its type.
WebhookDispatches(payload) ==
  Truthy(payload) /\ Truthy(Get(payload, "type"))

WebhookProcess(payload) ==
  << Line("Received webhook notification from Nylas:", <<>>),
     Line("Notification ID:", <<Get(payload, "id")>>),
     Line("Notification Type:", <<Get(payload, "type")>>),
     Line("Notification Source:", <<Get(payload, "source")>>),
     Line("Delivery Attempt:",
          <<OrElse(Get(payload, "webhook_delivery_attempt"), Num(1))>>),
     Line("Full payload:", <<payload>>) >>
  \o IF WebhookDispatches(payload)
     THEN <<Line("Processing notification type:", <<Get(payload, "type")>>)>>
          \o WebhookSwitch(payload)
     ELSE <<>>

\* A reply: the status code, the Content-Type and the payload sent.
Reply(status, type, payload) == [status |-> status, type |-> type, payload |-> payload]

ErrorBody(msg) == Obj([error |-> Str(<<msg>>)])

\* What a handler leaves behind: its reply, its console output and the
\* case of the switch it ran ("none" when it did not dispatch).
Outcome(reply, log, case) == [reply |-> reply, log |-> log, case |-> case]

\* The check switched off: no request is verified.
VerifyingDisabled(webhookSecret, nylasSignature) == FALSE

\* The check with the signature left out of the condition.
VerifyingSecretOnly(webhookSecret, nylasSignature) == Truthy(webhookSecret)

\* Line 143: `if (webhookSecret && nylasSignature)`
Verifying(webhookSecret, nylasSignature) ==
  Truthy(webhookSecret) /\ Truthy(nylasSignature)

\* The check as `rawBody === undefined`.
RawBodyUndefinedOnly(rawBody) == rawBody.t = "undefined"

\* Line 147: `if (!rawBody)`
RawBodyUnavailable(rawBody) == ~Truthy(rawBody)

\* Lines 154-156: the digest the handler computes.
ComputedSignature(webhookSecret, rawBody) == HmacSha256Hex(webhookSecret, rawBody)

\* The comparison made on the digests whatever the letter case of the hex.
SignatureMatchesIgnoringCase(computedSignature, nylasSignature) ==
  /\ nylasSignature.t = "string" /\ Len(nylasSignature.s) = 1
  /\ computedSignature.s[1].mac = nylasSignature.s[1].mac

\* Line 161: `computedSignature !== nylasSignature` is false.
SignatureMatches(computedSignature, nylasSignature) ==
  computedSignature = nylasSignature

SkipWarning == Line("No webhook secret or signature provided, skipping verification", <<>>)

\* Lines 130-237.
WebhookPost(payload, nylasSignature, webhookSecret, rawBody) ==
  LET headLog == << Line("Webhook signature:", <<nylasSignature>>),
                    Line("Webhook secret available:", <<Bool(Truthy(webhookSecret))>>) >>
      verifying == Verifying(webhookSecret, nylasSignature)
      computedSignature == ComputedSignature(webhookSecret, rawBody)
      match == SignatureMatches(computedSignature, nylasSignature)
      verifyLog ==
        IF verifying
        THEN << Line("Raw body length for verification:", <<Get(rawBody, "length")>>),
                Line("Computed signature:", <<computedSignature>>),
                Line("Signature match:", <<Bool(match)>>),
                Line("Webhook signature verified successfully", <<>>) >>
        ELSE <<SkipWarning>>
      run == Run(WebhookProcess(payload))
      case == IF WebhookDispatches(payload)
              THEN WebhookCase(Get(payload, "type")) ELSE "none"
  IN  IF verifying /\ RawBodyUnavailable(rawBody)
      THEN Outcome(Reply(400, "application/json", ErrorBody("Raw body not available")),
                   headLog \o <<Line("Raw body not available for signature verification", <<>>)>>,
                   "none")
      ELSE IF verifying /\ ~match
      THEN Outcome(Reply(401, "application/json", ErrorBody("Invalid signature")),
                   headLog \o SubSeq(verifyLog, 1, 3) \o <<Line("Invalid webhook signature", <<>>)>>,
                   "none")
      ELSE IF run.threw
      THEN Outcome(Reply(500, "application/json", ErrorBody("Failed to process webhook")),
                   headLog \o verifyLog \o run.log
                     \o <<Line("Error processing Nylas webhook:", <<>>)>>,
                   case)
      ELSE Outcome(Reply(200, "application/json", Obj([success |-> Bool(TRUE)])),
                   headLog \o verifyLog \o run.log
                     \o <<Line("Sending 200 OK response to acknowledge receipt", <<>>)>>,
                   case)

(***************************************************************************)
(* POST /pubsub/nylas: envelope, classification and dispatch               *)
(***************************************************************************)
PubSubMessageCreated(nylasNotification) ==
  LET messageData == Get(Get(nylasNotification, "data"), "object")
      from == Get(messageData, "from")
      to == Get(messageData, "to")
      body == Get(messageData, "body")
      date == Get(messageData, "date")
  IN
  << After(messageData, Line("New message received via Pub/Sub:", <<>>)),
     Line("- ID:", <<Get(messageData, "id")>>) >>
  \o IfLine(AndAlso(from, NonEmpty(from)),
            Line("- From:", << OrElse(GetOpt(First(from), "email"), Str(<<"unknown">>)),
                              OrElse(GetOpt(First(from), "name"), Str(<<"unnamed">>)) >>))
  \o IfLine(to, Line("- To:", <<OrElse(MapEmailJoin(to), Str(<<"unknown">>))>>))
  \o << Line("- Subject:", <<OrElse(Get(messageData, "subject"), Str(<<"No subject">>))>>) >>
  \o IfLine(body, Line("- Body preview:", <<Preview(body)>>))
  \o IfLine(date, Line("- Date:", <<ToISOString(Times1000(date))>>))
  \o << Line("- Full message data:", <<messageData>>) >>

PubSubMessageUpdated(nylasNotification) ==
  LET updatedMessage == Get(Get(nylasNotification, "data"), "object")
      from == Get(updatedMessage, "from")
      folders == Get(updatedMessage, "folders")
      body == Get(updatedMessage, "body")
  IN
  << After(updatedMessage, Line("Message updated via Pub/Sub:", <<>>)),
     Line("- ID:", <<Get(updatedMessage, "id")>>) >>
  \o IfLine(Get(updatedMessage, "thread_id"),
            Line("- Thread ID:", <<Get(updatedMessage, "thread_id")>>))
  \o IfLine(Get(updatedMessage, "subject"),
            Line("- Subject:", <<Get(updatedMessage, "subject")>>))
  \o IfLine(AndAlso(from, NonEmpty(from)),
            Line("- From:", << OrElse(GetOpt(First(from), "email"), Str(<<"unknown">>)),
                              OrElse(GetOpt(First(from), "name"), Str(<<"unnamed">>)) >>))
  \o IfLine(folders, Line("- Current folders:", <<OrElse(Join(folders), Str(<<"none">>))>>))
  \o << Line("- Unread status:", <<UnreadStatus(Get(updatedMessage, "unread"))>>) >>
  \o IfLine(body, Line("- Body preview:", <<Preview(body)>>))
  \o << Line("- Full message data:", <<updatedMessage>>) >>

\* The case of the switch on baseType that is taken.
PubSubCase(baseType) ==
  CASE baseType = Str(MessageCreated) -> "message.created"
    [] baseType = Str(MessageUpdated) -> "message.updated"
    [] OTHER -> "default"

PubSubSwitch(nylasNotification) ==
  LET type == Get(nylasNotification, "type")
      baseType == BaseType(type)
      case == PubSubCase(baseType)
  IN  IF baseType.t = "throw" THEN <<Thrown>>
      ELSE CASE case = "message.created" -> PubSubMessageCreated(nylasNotification)
             [] case = "message.updated" -> PubSubMessageUpdated(nylasNotification)
             [] OTHER ->
                  << Line("no specific handling implemented", <<type>>),
                     Line("Object data:",
                          <<Get(Get(nylasNotification, "data"), "object")>>) >>

PubSubDispatches(nylasNotification) ==
  Truthy(nylasNotification) /\ Truthy(Get(nylasNotification, "type"))

\* Lines 258-342: the body of the inner try.
PubSubProcess(decodedData) ==
  LET nylasNotification == JSONparse(decodedData.s) IN
  << After(nylasNotification, Line("Parsed Nylas notification from Pub/Sub:", <<>>)),
     Line("- Notification ID:", <<Get(nylasNotification, "id")>>),
     Line("- Notification Type:", <<Get(nylasNotification, "type")>>),
     Line("- Notification Source:", <<Get(nylasNotification, "source")>>) >>
  \o IF nylasNotification.t # "throw" /\ PubSubDispatches(nylasNotification)
     THEN <<Line("Processing notification type:", <<Get(nylasNotification, "type")>>)>>
          \o PubSubSwitch(nylasNotification)
     ELSE <<>>

\* The check with the data left out of the condition.
InvalidEnvelopeMessageOnly(pubsubMessage) == ~Truthy(Get(pubsubMessage, "message"))

\* Line 246: `if (!pubsubMessage.message || !pubsubMessage.message.data)`
InvalidEnvelope(pubsubMessage) ==
  IF Truthy(Get(pubsubMessage, "message"))
  THEN ~Truthy(Get(Get(pubsubMessage, "message"), "data"))
  ELSE TRUE

\* The catch without the line that shows the decoded text.
InnerCatchWithoutRawData(decodedData) ==
  <<Line("Error parsing Pub/Sub message data as JSON:", <<>>)>>

\* Lines 343-346: the catch of the inner try.
InnerCatch(decodedData) ==
  << Line("Error parsing Pub/Sub message data as JSON:", <<>>),
     Line("Raw message data:", <<decodedData>>) >>

\* Lines 240-355.
PubSubPost(pubsubMessage) ==
  LET message == Get(pubsubMessage, "message")
      data == Get(message, "data")
      decodedData == DecodeData(data)
      nylasNotification == JSONparse(decodedData.s)
      run == Run(PubSubProcess(decodedData))
      case == IF nylasNotification.t # "throw" /\ PubSubDispatches(nylasNotification)
                 /\ BaseType(Get(nylasNotification, "type")).t # "throw"
              THEN PubSubCase(BaseType(Get(nylasNotification, "type"))) ELSE "none"
      envelopeLog ==
        << Line("Received Pub/Sub message:", <<>>),
           Line("- Message ID:", <<Get(message, "messageId")>>),
           Line("- Publish Time:", <<Get(message, "publishTime")>>),
           Line("- Subscription:", <<Get(pubsubMessage, "subscription")>>) >>
  IN  IF message.t = "throw"
      THEN Outcome(Reply(500, "application/json", ErrorBody("Failed to process Pub/Sub message")),
                   <<Line("Error processing Pub/Sub message:", <<>>)>>, "none")
      ELSE IF InvalidEnvelope(pubsubMessage)
      THEN Outcome(Reply(400, "application/json", ErrorBody("Invalid message format")),
                   <<Line("Invalid Pub/Sub message format", <<>>)>>, "none")
      ELSE IF data.t # "string"
      THEN Outcome(Reply(500, "application/json", ErrorBody("Failed to process Pub/Sub message")),
                   <<Line("Error processing Pub/Sub message:", <<>>)>>, "none")
      ELSE IF run.threw
      THEN Outcome(Reply(204, "none", Undef),
                   envelopeLog \o run.log \o InnerCatch(decodedData), case)
      ELSE Outcome(Reply(204, "none", Undef), envelopeLog \o run.log, case)

(***************************************************************************)
(* GET /webhook/nylas: the challenge handshake                             *)
(***************************************************************************)
\* The handler returning the token inside a JSON object.
WebhookGetJson(challenge) ==
  Outcome(Reply(200, "application/json", Obj([challenge |-> challenge])),
          <<Line("Returning challenge:", <<challenge>>)>>, "none")

\* The handler refusing a request without a token.
WebhookGetStrict(challenge) ==
  IF Truthy(challenge)
  THEN Outcome(Reply(200, "text/plain", challenge),
               <<Line("Returning challenge:", <<challenge>>)>>, "none")
  ELSE Outcome(Reply(400, "application/json", ErrorBody("Missing challenge")),
               <<Line("No challenge parameter found in request", <<>>)>>, "none")

\* Lines 111-127.
WebhookGet(challenge) ==
  IF Truthy(challenge)
  THEN Outcome(Reply(200, "text/plain", challenge),
               <<Line("Returning challenge:", <<challenge>>)>>, "none")
  ELSE Outcome(Reply(200, IF challenge.t = "string" THEN "text/plain" ELSE "none", challenge),
               <<Line("No challenge parameter found in request", <<>>)>>, "none")

(***************************************************************************)
(* POST /api/send-email                                                    *)
(***************************************************************************)
\* The provider configuration: NYLAS_API_KEY and NYLAS_GRANT_ID, both set.
FullConfig == [apiKey |-> Str(<<"key">>), grantId |-> Str(<<"grant">>)]

\* No call to the provider API has been made; no reply has been sent.
NoCall == [t |-> "undefined"]
NoReply == Reply(0, "none", Undef)

\* Line 363: `!to || !subject || !body`
MissingRequiredFields(emailRequest) ==
  \/ ~Truthy(Get(emailRequest, "to"))
  \/ ~Truthy(Get(emailRequest, "subject"))
  \/ ~Truthy(Get(emailRequest, "body"))

\* Line 371: `!Array.isArray(to) || to.length === 0`
InvalidRecipients(emailRequest) ==
  LET to == Get(emailRequest, "to")
  IN  IF to.t = "array" THEN Len(to.a) = 0 ELSE TRUE

\* Line 388: `!nylasApiKey || !grantId`
MissingConfiguration(cfg) == ~Truthy(cfg.apiKey) \/ ~Truthy(cfg.grantId)

\* The checks with the configuration looked at first.
SendEmailRejectionConfigFirst(emailRequest, cfg) ==
  IF emailRequest.t \in {"undefined", "null"} THEN "fault"
  ELSE IF MissingConfiguration(cfg) THEN "configuration"
  ELSE IF MissingRequiredFields(emailRequest) THEN "missing"
  ELSE IF InvalidRecipients(emailRequest) THEN "recipients"
  ELSE IF MapEmailJoin(Get(emailRequest, "to")).t = "throw" THEN "faultTo"
  ELSE "none"

\* Lines 360-397: the early return the handler takes, "none" when it goes
\* on to build the payload.  Reading a field of a null or absent body, and
\* an entry of `to` that has no email to read, is a TypeError.
SendEmailRejection(emailRequest, cfg) ==
  IF emailRequest.t \in {"undefined", "null"} THEN "fault"
  ELSE IF MissingRequiredFields(emailRequest) THEN "missing"
  ELSE IF InvalidRecipients(emailRequest) THEN "recipients"
  ELSE IF MapEmailJoin(Get(emailRequest, "to")).t = "throw" THEN "faultTo"
  ELSE IF MissingConfiguration(cfg) THEN "configuration"
  ELSE "none"

\* `v.map((recipient) => ({ email: recipient.email, name: recipient.name || '' }))`
RecipientsOf(v) ==
  CASE v.t = "array" ->
         IF \E i \in 1..Len(v.a) : v.a[i].t \in {"undefined", "null"} THEN Thrown
         ELSE Arr([i \in 1..Len(v.a) |->
                     Obj([email |-> Get(v.a[i], "email"),
                          name |-> OrElse(Get(v.a[i], "name"), Str(<<>>))])])
    [] OTHER -> Thrown

\* Lines 418-428: `if (v && v.length > 0) payload[k] = v.map(...)`
AddRecipients(payload, emailRequest, k) ==
  LET v == Get(emailRequest, k) IN
  IF payload.t = "throw" THEN Thrown
  ELSE IF Truthy(AndAlso(v, NonEmpty(v)))
  THEN IF RecipientsOf(v).t = "throw" THEN Thrown ELSE With(payload, k, RecipientsOf(v))
  ELSE payload

\* Lines 411-433: the payload for the provider.
EmailPayload(emailRequest) ==
  LET required ==
        IF RecipientsOf(Get(emailRequest, "to")).t = "throw" THEN Thrown
        ELSE Obj([to |-> RecipientsOf(Get(emailRequest, "to")),
                  subject |-> Get(emailRequest, "subject"),
                  body |-> Get(emailRequest, "body")])
      recipients ==
        AddRecipients(AddRecipients(AddRecipients(required, emailRequest, "cc"),
                                    emailRequest, "bcc"),
                      emailRequest, "reply_to")
      tracking == Get(emailRequest, "tracking_options")
  IN  IF recipients.t = "throw" THEN Thrown
      ELSE IF Truthy(tracking) THEN With(recipients, "tracking_options", tracking)
      ELSE recipients

ErrorMessage(error, message) == Obj([error |-> Str(<<error>>), message |-> Str(<<message>>)])

\* Lines 358-446: the handler up to the call it awaits.  The result is the
\* call made (to drafts when send_draft is false, to messages/send
\* otherwise), or the reply of an early return or of the catch.
SendEmailStart(emailRequest, cfg) ==
  LET rejection == SendEmailRejection(emailRequest, cfg)
      payload == EmailPayload(emailRequest)
      apiUrl ==
        [ grant |-> cfg.grantId,
          endpoint |-> IF Get(emailRequest, "send_draft") = Bool(FALSE)
                       THEN "drafts" ELSE "messages/send" ]
      sending ==
        << Line("Sending email:", <<>>),
           Line("To:", <<MapEmailJoin(Get(emailRequest, "to"))>>),
           Line("Subject:", <<Get(emailRequest, "subject")>>) >>
      failed(log) ==
        [ call |-> NoCall,
          outcome |-> Outcome(Reply(500, "application/json",
                                    ErrorMessage("Failed to send email", "TypeError")),
                              log \o <<Line("Error sending email:", <<>>)>>, "none") ]
  IN  CASE rejection = "fault" -> failed(<<>>)
        [] rejection = "missing" ->
             [ call |-> NoCall,
               outcome |-> Outcome(Reply(400, "application/json",
                                         ErrorMessage("Missing required fields",
                                                      "to, subject, and body are required")),
                                   <<>>, "none") ]
        [] rejection = "recipients" ->
             [ call |-> NoCall,
               outcome |-> Outcome(Reply(400, "application/json",
                                         ErrorMessage("Invalid recipients",
                                                      "to must be a non-empty array")),
                                   <<>>, "none") ]
        [] rejection = "faultTo" -> failed(<<Line("Sending email:", <<>>)>>)
        [] rejection = "configuration" ->
             [ call |-> NoCall,
               outcome |-> Outcome(Reply(500, "application/json",
                                         ErrorMessage("Configuration error",
                                                      "Missing required environment variables")),
                                   sending \o <<Line("Missing configuration:",
                                                     << Bool(~Truthy(cfg.apiKey)),
                                                        Bool(~Truthy(cfg.grantId)) >>)>>,
                                   "none") ]
        [] OTHER ->
             IF payload.t = "throw" THEN failed(sending)
             ELSE [ call |-> [ t |-> "call", url |-> apiUrl, payload |-> payload,
                               authorization |-> cfg.apiKey ],
                    outcome |-> Outcome(NoReply, sending, "none") ]

\* What the provider answers: success with the message, 403, another error
\* status with a message, or nothing (the call fails without a response).
ProviderResponses ==
  { [status |-> 200, data |-> Obj([id |-> Str(<<"sent1">>)])],
    [status |-> 403, data |-> Obj([message |-> Str(<<"forbidden">>)])],
    [status |-> 422, data |-> Obj([message |-> Str(<<"invalid">>)])],
    [status |-> 0, data |-> Undef] }

\* Lines 448-487: the handler after the call.
SendEmailFinish(response) ==
  CASE response.status = 200 ->
         Outcome(Reply(200, "application/json", response.data),
                 <<Line("Email sent successfully! ID:", <<Get(response.data, "id")>>)>>, "none")
    [] response.status = 403 ->
         Outcome(Reply(403, "application/json",
                       ErrorMessage("Nylas API authorization error",
                                    "invalid, expired, or missing required permissions")),
                 << Line("Error sending email:", <<>>),
                    Line("Status:", <<Num(403)>>),
                    Line("Reason: Authorization error - invalid API key or grant ID", <<>>),
                    Line("Action: Please re-authorize the application to get a new grant ID", <<>>) >>,
                 "none")
    [] response.status = 0 ->
         Outcome(Reply(500, "application/json",
                       ErrorMessage("Failed to send email", "Error")),
                 <<Line("Error sending email:", <<>>)>>, "none")
    [] OTHER ->
         Outcome(Reply(response.status, "application/json",
                       Obj([error |-> Str(<<"Nylas API error">>),
                            status |-> Num(response.status),
                            message |-> GetOpt(response.data, "message")])),
                 << Line("Error sending email:", <<>>),
                    Line("Status:", <<Num(response.status)>>),
                    Line("Details:", <<response.data>>) >>,
                 "none")

(***************************************************************************)
(* Requests                                                                *)
(***************************************************************************)
MaxTokenLen == 2

ChallengeChars == {"abc123", "\"", " "}

RECURSIVE SeqsUpTo(_, _)
SeqsUpTo(S, n) ==
  IF n = 0 THEN {<<>>}
  ELSE LET shorter == SeqsUpTo(S, n - 1)
       IN  shorter \cup {Append(t, c) : t \in shorter, c \in S}

\* The values of the challenge query parameter: absent, empty, a token.
Challenges == {Undef} \cup {Str(t) : t \in SeqsUpTo(ChallengeChars, MaxTokenLen)}

\* The values of NYLAS_WEBHOOK_SECRET: unset, empty, set.
ConfiguredSecret == Str(<<"s3cret">>)
OtherSecret == Str(<<"guess">>)
Secrets == {Undef, Str(<<>>), ConfiguredSecret}

\* The request bodies: none, texts that are not JSON, and the JSON texts of
\* null, of strings, of {} and of every document, compact and spaced.
Bodies ==
  { Undef, Str(<<>>), Str(<<LBRACE, LBRACE>>), Str(NullText), Str(<<SP>> \o NullText),
    Str(<<QUOTE, QUOTE>>), Str(<<QUOTE, LBRACE, QUOTE>>), Str(<<LBRACE, RBRACE>>),
    Str(<<LBRACE, SP, RBRACE>>) }
  \cup {Str(DocText(DocCode(i), sp)) :
          i \in 1..(Len(NotificationTable) + Len(EnvelopeTable)), sp \in BOOLEAN}

\* What a client that parses a text and serializes it again sends on.
Reserialized(text) ==
  LET v == JSONparse(text.s)
  IN  IF v.t = "throw" THEN text ELSE JSONstringify(v)

\* The values of the X-Nylas-Signature header sent with a body: absent,
\* empty, or a digest of the body as sent or as re-serialized, under the
\* configured secret or another one, in lower or upper case hex.
Signatures(body) ==
  LET texts == IF body.t = "string" THEN {body.s, Reserialized(body).s} ELSE {<<>>}
  IN  {Undef, Str(<<>>)}
      \cup {HexDigest(k.s, m, u) : k \in {ConfiguredSecret, OtherSecret},
                                   m \in texts, u \in BOOLEAN}

Request(method, url, challenge, signature, body) ==
  [method |-> method, url |-> url, challenge |-> challenge,
   signature |-> signature, body |-> body]

Requests ==
  {Request("GET", "/webhook/nylas", c, Undef, Undef) : c \in Challenges}
  \cup UNION {{Request("POST", url, Undef, sig, b) : sig \in Signatures(b),
                 url \in {"/webhook/nylas", "/pubsub/nylas"}} : b \in Bodies}

NoRequest == Request("-", "-", Undef, Undef, Undef)

(***************************************************************************)
(* The server                                                              *)
(***************************************************************************)
\* No subscription of the configured name exists.
NoSubscription == <<>>

\* No setup script has been started.
NoScript == [kind |-> "-", pc |-> "idle", endpoint |-> <<>>, log |-> <<>>, failed |-> {}]

VARIABLES
  env,      \* process.env.NYLAS_WEBHOOK_SECRET
  stage,    \* where each connection's request is in the Fastify lifecycle
  request,  \* the request as received
  body,     \* request.body
  rawBody,  \* request.rawBody
  reply,    \* the reply sent
  console,  \* the lines the request has written to the console
  case,     \* the case of the dispatch switch the request ran
  config,   \* process.env.NYLAS_API_KEY and NYLAS_GRANT_ID
  outbound, \* the call each request has made to the provider API
  text,     \* a text the publisher puts into an envelope
  encoded,  \* the data string of that envelope
  decoded,  \* what the envelope decode step makes of it
  subscription, \* the push endpoint of the subscription in the cloud project
  listening,    \* whether the server of index.ts listens on port 3002
  script        \* the run of a setup script: its position, endpoint and output

vars ==
  << env, stage, request, body, rawBody, reply, console, case, config, outbound,
     text, encoded, decoded, subscription, listening, script >>

Connections == {1}

Init ==
  /\ env \in Secrets
  /\ stage = [c \in Connections |-> "idle"]
  /\ request = [c \in Connections |-> NoRequest]
  /\ body = [c \in Connections |-> Undef]
  /\ rawBody = [c \in Connections |-> Undef]
  /\ reply = [c \in Connections |-> NoReply]
  /\ console = [c \in Connections |-> <<>>]
  /\ case = [c \in Connections |-> "none"]
  /\ config = FullConfig
  /\ outbound = [c \in Connections |-> NoCall]
  /\ text = <<>>
  /\ encoded = Undef
  /\ decoded = Undef
  /\ subscription = NoSubscription
  /\ listening = TRUE
  /\ script = NoScript

\* A request arrives on an idle connection.
Receive(c, r) ==
  /\ stage[c] = "idle"
  /\ stage' = [stage EXCEPT ![c] = "received"]
  /\ request' = [request EXCEPT ![c] = r]
  /\ UNCHANGED <<env, body, rawBody, reply, console, case, config, outbound,
               text, encoded, decoded,
               subscription, listening, script>>

HasBody(r) == r.method = "POST" /\ r.body.t = "string"

\* Lines 82-89: the application/json parser hands the parsed body on, or
\* the error of JSON.parse; a request without a body is not parsed.
ParsedBody(r) == IF HasBody(r) THEN JSONparse(r.body.s) ELSE Undef

ContentTypeParser(c) ==
  /\ stage[c] = "received"
  /\ ParsedBody(request[c]).t # "throw"
  /\ stage' = [stage EXCEPT ![c] = "parsed"]
  /\ body' = [body EXCEPT ![c] = ParsedBody(request[c])]
  /\ UNCHANGED <<env, request, rawBody, reply, console, case, config, outbound,
               text, encoded, decoded,
               subscription, listening, script>>

\* Lines 86-88: done(err) makes the framework answer with an error status.
ParserErrorStatuses == {400, 500}

ContentTypeParserError(c, status) ==
  /\ stage[c] = "received"
  /\ ParsedBody(request[c]).t = "throw"
  /\ stage' = [stage EXCEPT ![c] = "sent"]
  /\ reply' = [reply EXCEPT ![c] = Reply(status, "application/json", ErrorBody("SyntaxError"))]
  /\ UNCHANGED <<env, request, body, rawBody, console, case, config, outbound,
               text, encoded, decoded,
               subscription, listening, script>>

\* Lines 92-98: the preHandler hook saves the body for the signature check.
SavedRawBody(b) == IF b.t = "string" THEN b ELSE JSONstringify(b)

\* The hook keeping the saved body in one place for all requests.
PreHandlerShared(c) ==
  /\ stage[c] = "parsed"
  /\ stage' = [stage EXCEPT ![c] = "preHandler"]
  /\ rawBody' = IF request[c].url = "/webhook/nylas" /\ request[c].method = "POST"
                THEN [d \in DOMAIN rawBody |-> SavedRawBody(body[c])] ELSE rawBody
  /\ UNCHANGED <<env, request, body, reply, console, case, config, outbound,
               text, encoded, decoded,
               subscription, listening, script>>

PreHandler(c) ==
  /\ stage[c] = "parsed"
  /\ stage' = [stage EXCEPT ![c] = "preHandler"]
  /\ rawBody' = [rawBody EXCEPT ![c] =
                   IF request[c].url = "/webhook/nylas" /\ request[c].method = "POST"
                   THEN SavedRawBody(body[c]) ELSE rawBody[c]]
  /\ UNCHANGED <<env, request, body, reply, console, case, config, outbound,
               text, encoded, decoded,
               subscription, listening, script>>

\* The route handler runs and its reply is sent.
Handle(c, outcome) ==
  /\ stage' = [stage EXCEPT ![c] = "sent"]
  /\ reply' = [reply EXCEPT ![c] = outcome.reply]
  /\ console' = [console EXCEPT ![c] = outcome.log]
  /\ case' = [case EXCEPT ![c] = outcome.case]
  /\ UNCHANGED <<env, request, body, rawBody, config, outbound, text, encoded, decoded,
               subscription, listening, script>>

GetWebhook(c) ==
  /\ stage[c] = "preHandler"
  /\ request[c].method = "GET" /\ request[c].url = "/webhook/nylas"
  /\ Handle(c, WebhookGet(request[c].challenge))

\* The webhook route answering a notification that another exchange has
\* already answered as a duplicate, without processing it.
PostWebhookDeduplicating(c) ==
  /\ stage[c] = "preHandler"
  /\ request[c].method = "POST" /\ request[c].url = "/webhook/nylas"
  /\ Handle(c, IF \E d \in DOMAIN stage \ {c} : stage[d] = "sent" /\ body[d] = body[c]
               THEN Outcome(Reply(200, "application/json", Obj([duplicate |-> Bool(TRUE)])),
                            <<Line("Duplicate notification", <<>>)>>, "none")
               ELSE WebhookPost(body[c], request[c].signature, env, rawBody[c]))

PostWebhook(c) ==
  /\ stage[c] = "preHandler"
  /\ request[c].method = "POST" /\ request[c].url = "/webhook/nylas"
  /\ Handle(c, WebhookPost(body[c], request[c].signature, env, rawBody[c]))

\* The relay route with the signature step of the webhook route in front.
PostPubSubVerifying(c) ==
  /\ stage[c] = "preHandler"
  /\ request[c].method = "POST" /\ request[c].url = "/pubsub/nylas"
  /\ Handle(c, IF /\ Verifying(env, request[c].signature)
                  /\ \/ RawBodyUnavailable(SavedRawBody(body[c]))
                     \/ ~SignatureMatches(ComputedSignature(env, SavedRawBody(body[c])),
                                          request[c].signature)
               THEN Outcome(Reply(401, "application/json", ErrorBody("Invalid signature")),
                            <<Line("Invalid webhook signature", <<>>)>>, "none")
               ELSE PubSubPost(body[c]))

PostPubSub(c) ==
  /\ stage[c] = "preHandler"
  /\ request[c].method = "POST" /\ request[c].url = "/pubsub/nylas"
  /\ Handle(c, PubSubPost(body[c]))

\* The exchange is over; the connection takes the next request.
Complete(c) ==
  /\ stage[c] = "sent"
  /\ stage' = [stage EXCEPT ![c] = "idle"]
  /\ request' = [request EXCEPT ![c] = NoRequest]
  /\ body' = [body EXCEPT ![c] = Undef]
  /\ rawBody' = [rawBody EXCEPT ![c] = Undef]
  /\ reply' = [reply EXCEPT ![c] = NoReply]
  /\ console' = [console EXCEPT ![c] = <<>>]
  /\ case' = [case EXCEPT ![c] = "none"]
  /\ outbound' = [outbound EXCEPT ![c] = NoCall]
  /\ UNCHANGED <<env, config, text, encoded, decoded, subscription, listening, script>>

Next ==
  \E c \in Connections :
    \/ \E r \in Requests : Receive(c, r)
    \/ ContentTypeParser(c)
    \/ \E status \in ParserErrorStatuses : ContentTypeParserError(c, status)
    \/ PreHandler(c)
    \/ GetWebhook(c)
    \/ PostWebhook(c)
    \/ PostPubSub(c)
    \/ Complete(c)

Spec == Init /\ [][Next]_vars

\* A route handler has answered the request of connection c: every handler
\* writes to the console before it replies, the framework's own error reply
\* does not.
Handled(c) == stage[c] = "sent" /\ console[c] # <<>>

IsWebhookPost(r) == r.method = "POST" /\ r.url = "/webhook/nylas"
IsPubSubPost(r) == r.method = "POST" /\ r.url = "/pubsub/nylas"
IsWebhookGet(r) == r.method = "GET" /\ r.url = "/webhook/nylas"

\* The console of connection c has a line with this label.
Logged(c, label) == \E i \in 1..Len(console[c]) : console[c][i].line = label

\* A notification with every summarized sub-field of its object present.
WellFormedNotification(v) ==
  /\ v.t = "object"
  /\ {"type", "id", "data"} \subseteq DOMAIN v.f
  /\ Truthy(v.f.type)
  /\ Get(v.f.data, "object") \in {MsgFull, EvtFull}

(***************************************************************************)
(* The handshake traffic alone, with the scheduling of the event loop: a   *)
(* callback that is ready to run does run.                                 *)
(***************************************************************************)
HandshakeRequests ==
  {Request("GET", "/webhook/nylas", c, Undef, Undef) : c \in Challenges}

HandshakeNext ==
  \E c \in Connections :
    \/ \E r \in HandshakeRequests : Receive(c, r)
    \/ ContentTypeParser(c)
    \/ PreHandler(c)
    \/ GetWebhook(c)
    \/ Complete(c)

HandshakeFairness ==
  \A c \in Connections :
    /\ WF_vars(ContentTypeParser(c))
    /\ WF_vars(PreHandler(c))
    /\ WF_vars(GetWebhook(c))

HandshakeSpec == Init /\ [][HandshakeNext]_vars /\ HandshakeFairness

(***************************************************************************)
(* The envelope codec alone: the publisher encodes a text, the decode step *)
(* of the relay handler and of the pull script decodes it.                 *)
(***************************************************************************)
MaxTextLen == 3

\* Texts over one character of each UTF-8 length: A, e-acute, the euro
\* sign, an emoji.
Texts == SeqsUpTo({65, 233, 8364, 128512}, MaxTextLen)

CodecInit ==
  /\ env = Undef
  /\ stage = [c \in Connections |-> "idle"]
  /\ request = [c \in Connections |-> NoRequest]
  /\ body = [c \in Connections |-> Undef]
  /\ rawBody = [c \in Connections |-> Undef]
  /\ reply = [c \in Connections |-> NoReply]
  /\ console = [c \in Connections |-> <<>>]
  /\ case = [c \in Connections |-> "none"]
  /\ config = FullConfig
  /\ outbound = [c \in Connections |-> NoCall]
  /\ text \in Texts
  /\ encoded = Undef
  /\ decoded = Undef
  /\ subscription = NoSubscription
  /\ listening = TRUE
  /\ script = NoScript

\* The publisher base64-encodes the UTF-8 bytes of the text.
Encode ==
  /\ encoded = Undef
  /\ encoded' = Str(Base64Encode(Utf8Encode(text)))
  /\ UNCHANGED <<text, decoded, env, stage, request, body, rawBody, reply, console, case,
               config, outbound,
               subscription, listening, script>>

\* Buffer.from(data, 'base64').toString('utf-8')
Decode ==
  /\ encoded # Undef /\ decoded = Undef
  /\ decoded' = DecodeData(encoded)
  /\ UNCHANGED <<text, encoded, env, stage, request, body, rawBody, reply, console, case,
               config, outbound,
               subscription, listening, script>>

\* The next message of the subscription.
NextText(x) ==
  /\ decoded # Undef
  /\ text' = x /\ encoded' = Undef /\ decoded' = Undef
  /\ UNCHANGED <<env, stage, request, body, rawBody, reply, console, case,
               config, outbound,
               subscription, listening, script>>

CodecNext == Encode \/ Decode \/ \E x \in Texts : NextText(x)

CodecSpec == CodecInit /\ [][CodecNext]_vars

(***************************************************************************)
(* The send-email traffic alone, under every provider configuration.       *)
(***************************************************************************)
IsSendEmail(r) == r.method = "POST" /\ r.url = "/api/send-email"

\* Requests with no body, with a body that is not a request object, and
\* with every request of the table.
MailRequests ==
  { Request("POST", "/api/send-email", Undef, Undef, b) :
      b \in { Undef, Str(NullText), Str(<<LBRACE, LBRACE>>), Str(<<LBRACE, RBRACE>>),
              Str(<<QUOTE, QUOTE>>) }
            \cup { Str(DocText(DocCode(Len(NotificationTable) + Len(EnvelopeTable) + i),
                               FALSE)) : i \in 1..Len(EmailTable) } }

MailInit ==
  /\ env = Undef
  /\ stage = [c \in Connections |-> "idle"]
  /\ request = [c \in Connections |-> NoRequest]
  /\ body = [c \in Connections |-> Undef]
  /\ rawBody = [c \in Connections |-> Undef]
  /\ reply = [c \in Connections |-> NoReply]
  /\ console = [c \in Connections |-> <<>>]
  /\ case = [c \in Connections |-> "none"]
  /\ config \in [apiKey : {Undef, Str(<<>>), FullConfig.apiKey},
                  grantId : {Undef, FullConfig.grantId}]
  /\ outbound = [c \in Connections |-> NoCall]
  /\ text = <<>>
  /\ encoded = Undef
  /\ decoded = Undef
  /\ subscription = NoSubscription
  /\ listening = TRUE
  /\ script = NoScript

\* The handler runs up to its early return, its fault or the call it awaits.
PostSendEmail(c) ==
  /\ stage[c] = "preHandler"
  /\ IsSendEmail(request[c])
  /\ LET start == SendEmailStart(body[c], config) IN
       /\ stage' = [stage EXCEPT ![c] = IF start.call = NoCall THEN "sent" ELSE "awaiting"]
       /\ reply' = [reply EXCEPT ![c] = start.outcome.reply]
       /\ console' = [console EXCEPT ![c] = start.outcome.log]
       /\ outbound' = [outbound EXCEPT ![c] = start.call]
  /\ UNCHANGED <<env, request, body, rawBody, case, config, text, encoded, decoded,
               subscription, listening, script>>

\* The awaited call settles and the handler replies.
ProviderResponds(c, response) ==
  /\ stage[c] = "awaiting"
  /\ LET finish == SendEmailFinish(response) IN
       /\ reply' = [reply EXCEPT ![c] = finish.reply]
       /\ console' = [console EXCEPT ![c] = console[c] \o finish.log]
  /\ stage' = [stage EXCEPT ![c] = "sent"]
  /\ UNCHANGED <<env, request, body, rawBody, case, config, outbound,
               text, encoded, decoded,
               subscription, listening, script>>

MailNext ==
  \E c \in Connections :
    \/ \E r \in MailRequests : Receive(c, r)
    \/ ContentTypeParser(c)
    \/ \E status \in ParserErrorStatuses : ContentTypeParserError(c, status)
    \/ PreHandler(c)
    \/ PostSendEmail(c)
    \/ \E response \in ProviderResponses : ProviderResponds(c, response)
    \/ Complete(c)

MailSpec == MailInit /\ [][MailNext]_vars

(***************************************************************************)
(* Signature verification                                                  *)
(***************************************************************************)
\* C1: with a secret configured and a signature present, the signature
\* that verifies is the HMAC of the body as received: the digest of the
\* received text of a well-formed notification is answered 200, and the
\* digest of a re-serialization that differs from the received text is
\* answered 401.
C1_SignatureOverRawBytes ==
  \A c \in Connections :
    ( /\ stage[c] = "sent"
      /\ IsWebhookPost(request[c])
      /\ Truthy(env)
      /\ HasBody(request[c])
      /\ WellFormedNotification(ParsedBody(request[c])) )
    => /\ request[c].signature = HmacSha256Hex(env, request[c].body)
            => reply[c].status = 200
       /\ ( /\ request[c].signature = HmacSha256Hex(env, Reserialized(request[c].body))
            /\ Reserialized(request[c].body) # request[c].body )
            => reply[c].status = 401

\* C2: with the secret configured, the signature present and the raw body
\* available, a signature that differs from the computed lower-case hex
\* digest in any character, its letter case included, is answered 401 with
\* an error body.
C2_MismatchIsUnauthorized ==
  \A c \in Connections :
    ( /\ Handled(c)
      /\ IsWebhookPost(request[c])
      /\ Truthy(env) /\ Truthy(request[c].signature)
      /\ Truthy(rawBody[c])
      /\ request[c].signature # HmacSha256Hex(env, rawBody[c]) )
    => reply[c] = Reply(401, "application/json", ErrorBody("Invalid signature"))

\* A signature that is the upper-case hex of the right digest is refused.
C2_Witness ==
  \E c \in Connections :
    /\ Handled(c) /\ IsWebhookPost(request[c])
    /\ Truthy(env) /\ Truthy(rawBody[c])
    /\ request[c].signature = HexDigest(env.s, rawBody[c].s, TRUE)
    /\ reply[c].status = 401

\* C3: without a secret or without a signature header (an empty value of
\* either included) the check is skipped with a warning, the reply is never
\* 401, and a well-formed notification is answered 200 {success: true}.
C3_SkippedVerification ==
  \A c \in Connections :
    ( /\ Handled(c)
      /\ IsWebhookPost(request[c])
      /\ ~Truthy(env) \/ ~Truthy(request[c].signature) )
    => /\ reply[c].status # 401
       /\ Logged(c, "No webhook secret or signature provided, skipping verification")
       /\ WellFormedNotification(body[c])
            => reply[c] = Reply(200, "application/json", Obj([success |-> Bool(TRUE)]))

\* A well-formed notification without a signature header is accepted while a
\* secret is configured.
C3_Witness ==
  \E c \in Connections :
    /\ Handled(c) /\ IsWebhookPost(request[c])
    /\ Truthy(env) /\ request[c].signature = Undef
    /\ WellFormedNotification(body[c])
    /\ reply[c].status = 200
    /\ Logged(c, "No webhook secret or signature provided, skipping verification")

\* C4: with secret and signature present and no captured raw body (absent
\* or empty) the reply is 400, and neither a digest comparison nor a
\* dispatch takes place.
C4_RawBodyUnavailable ==
  \A c \in Connections :
    ( /\ Handled(c)
      /\ IsWebhookPost(request[c])
      /\ Truthy(env) /\ Truthy(request[c].signature)
      /\ ~Truthy(rawBody[c]) )
    => /\ reply[c].status = 400
       /\ ~Logged(c, "Computed signature:")
       /\ ~Logged(c, "Signature match:")
       /\ ~Logged(c, "Processing notification type:")
       /\ case[c] = "none"

\* The captured body is the empty string and the reply is 400.
C4_Witness ==
  \E c \in Connections :
    /\ Handled(c) /\ IsWebhookPost(request[c])
    /\ Truthy(env) /\ Truthy(request[c].signature)
    /\ rawBody[c] = Str(<<>>)
    /\ reply[c].status = 400

(***************************************************************************)
(* The challenge handshake                                                 *)
(***************************************************************************)
\* C5: a GET with a non-empty challenge token is answered 200, text/plain,
\* with the token itself as the whole body.
C5_ChallengeEcho ==
  \A c \in Connections :
    (stage[c] = "sent" /\ IsWebhookGet(request[c]) /\ Truthy(request[c].challenge))
    => reply[c] = Reply(200, "text/plain", request[c].challenge)

\* A token that holds a quote and a space has been echoed.
C5_Witness ==
  \E c \in Connections :
    /\ stage[c] = "sent" /\ IsWebhookGet(request[c])
    /\ request[c].challenge = Str(<<"\"", " ">>)
    /\ reply[c].payload = Str(<<"\"", " ">>)

\* C6: a GET without a challenge token (absent or empty) is eventually
\* answered, once, with the empty or undefined value it carried and not
\* with an error.
C6_ProbeIsAnswered ==
  /\ \A c \in Connections :
       (stage[c] = "received" /\ IsWebhookGet(request[c]) /\ ~Truthy(request[c].challenge))
       ~> ( /\ stage[c] = "sent"
            /\ ~Truthy(request[c].challenge)
            /\ reply[c].status = 200
            /\ reply[c].payload = request[c].challenge )
  /\ [][\A c \in Connections :
          reply[c] # NoReply => reply'[c] = reply[c] \/ stage'[c] = "idle"]_vars

\* A request without the parameter has its reply.
C6_Witness ==
  \E c \in Connections :
    /\ stage[c] = "sent" /\ IsWebhookGet(request[c])
    /\ request[c].challenge = Undef
    /\ reply[c] = Reply(200, "none", Undef)

(***************************************************************************)
(* Classification and dispatch                                             *)
(***************************************************************************)
\* The notification a POST carries: the parsed body on the webhook path,
\* the parsed decoded data on the relay path (undefined when there is none).
ReceivedNotification(c) ==
  IF IsWebhookPost(request[c]) THEN body[c]
  ELSE IF IsPubSubPost(request[c]) /\ body[c].t = "object"
          /\ Get(body[c], "message").t = "object"
          /\ Get(Get(body[c], "message"), "data").t = "string"
  THEN LET v == JSONparse(DecodeData(Get(Get(body[c], "message"), "data")).s)
       IN  IF v.t = "throw" THEN Undef ELSE v
  ELSE Undef

\* The request passed the signature check or the check was skipped.
PastVerification(c) ==
  IsWebhookPost(request[c]) => reply[c].status \notin {400, 401}

\* The success reply of the path.
Accepted(c) ==
  IF IsWebhookPost(request[c])
  THEN reply[c] = Reply(200, "application/json", Obj([success |-> Bool(TRUE)]))
  ELSE reply[c] = Reply(204, "none", Undef)

\* A fault was raised while the notification was processed.
Faulted(c) ==
  \/ Logged(c, "Error processing Nylas webhook:")
  \/ Logged(c, "Error parsing Pub/Sub message data as JSON:")
  \/ Logged(c, "Error processing Pub/Sub message:")

\* The categories the design enumerates.
KnownCategories ==
  {MessageCreated, MessageUpdated, EventCreated, EventUpdated, ContactCreated,
   ContactUpdated}

HasStringType(v) ==
  v.t = "object" /\ "type" \in DOMAIN v.f /\ v.f.type.t = "string"

\* What the path of connection c does with the notification v when no
\* signature check stands in the way.
OutcomeOnPath(c, v) ==
  IF IsWebhookPost(request[c]) THEN WebhookPost(v, Undef, Undef, Undef)
  ELSE PubSubPost(Envelope(NotificationData(CHOOSE i \in 1..Len(NotificationTable) :
                                              NotificationTable[i] = v)))

\* C7: on both paths a notification whose type is a known category followed
\* by `.transformed` runs the same case and gets the same reply as the
\* notification with the bare category.
C7_TransformedDispatchedAsBase ==
  \A c \in Connections :
    LET v == ReceivedNotification(c) IN
    (Handled(c) /\ PastVerification(c) /\ HasStringType(v))
    => \A base \in KnownCategories :
         v.f.type.s = base \o TransformedSuffix
         => LET expected == OutcomeOnPath(c, With(v, "type", Str(base)))
            IN  case[c] = expected.case /\ reply[c] = expected.reply

\* C8: for every enumerated category, a changed object that lacks any of
\* its summarized sub-fields raises no fault and the request gets the
\* success reply of its path.
C8_MissingSubFieldsDegrade ==
  \A c \in Connections :
    LET v == ReceivedNotification(c) IN
    ( /\ Handled(c) /\ PastVerification(c) /\ HasStringType(v)
      /\ v.f.type.s \in KnownCategories
      /\ Get(GetOpt(Get(v, "data"), "object"), "id").t # "throw" )
    => Accepted(c) /\ ~Faulted(c)

(***************************************************************************)
(* The relay envelope                                                      *)
(***************************************************************************)
\* Standard-alphabet base64: characters of the alphabet in groups of four,
\* the last group padded with at most two '='.
ValidBase64(s) ==
  /\ Len(s) % 4 = 0
  /\ \E pad \in 0..2 :
       /\ pad <= Len(s)
       /\ \A i \in 1..Len(s) : IF i <= Len(s) - pad THEN s[i] \in 0..63 ELSE s[i] = B64Pad

\* C9: an envelope whose message.data is present but is not valid
\* standard-alphabet base64 is answered with a client error.
C9_InvalidBase64Rejected ==
  \A c \in Connections :
    ( /\ Handled(c) /\ IsPubSubPost(request[c])
      /\ body[c].t = "object"
      /\ Get(body[c], "message").t = "object"
      /\ Get(Get(body[c], "message"), "data").t = "string"
      /\ Truthy(Get(Get(body[c], "message"), "data"))
      /\ ~ValidBase64(Get(Get(body[c], "message"), "data").s) )
    => reply[c].status \in 400..499

\* C10: an envelope with no message or with a missing or empty
\* message.data is answered 400, and nothing is decoded, classified or
\* dispatched for it.
C10_MalformedEnvelope ==
  \A c \in Connections :
    ( /\ Handled(c) /\ IsPubSubPost(request[c])
      /\ body[c].t \notin {"undefined", "null"}
      /\ \/ ~Truthy(Get(body[c], "message"))
         \/ ~Truthy(Get(Get(body[c], "message"), "data")) )
    => /\ reply[c] = Reply(400, "application/json", ErrorBody("Invalid message format"))
       /\ ~Logged(c, "Received Pub/Sub message:")
       /\ ~Logged(c, "Parsed Nylas notification from Pub/Sub:")
       /\ ~Logged(c, "Processing notification type:")
       /\ case[c] = "none"

\* An envelope whose data is the empty string has been answered 400.
C10_Witness ==
  \E c \in Connections :
    /\ Handled(c) /\ IsPubSubPost(request[c])
    /\ Get(body[c], "message").t = "object"
    /\ Get(Get(body[c], "message"), "data") = Str(<<>>)
    /\ reply[c].status = 400

(***************************************************************************)
(* Malformed and unroutable notifications                                  *)
(***************************************************************************)
\* The relay request of connection c carries a non-empty data string.
HasEnvelopeData(c) ==
  /\ IsPubSubPost(request[c])
  /\ body[c].t = "object"
  /\ Get(body[c], "message").t = "object"
  /\ Get(Get(body[c], "message"), "data").t = "string"
  /\ Truthy(Get(Get(body[c], "message"), "data"))

\* The text the relay handler decodes from the envelope.
DecodedData(c) == DecodeData(Get(Get(body[c], "message"), "data"))

\* The console of connection c has this very line.
LoggedLine(c, line) == \E i \in 1..Len(console[c]) : console[c][i] = line

\* C11: on the relay path, data that decodes to text that is not JSON is
\* acknowledged with 204, the decoded text is logged, and nothing is
\* classified or dispatched.
C11_MalformedInnerJson ==
  \A c \in Connections :
    ( /\ Handled(c) /\ HasEnvelopeData(c)
      /\ JSONparse(DecodedData(c).s).t = "throw" )
    => /\ reply[c] = Reply(204, "none", Undef)
       /\ LoggedLine(c, Line("Raw message data:", <<DecodedData(c)>>))
       /\ ~Logged(c, "Parsed Nylas notification from Pub/Sub:")
       /\ ~Logged(c, "Processing notification type:")
       /\ case[c] = "none"

\* The text `{{` arrived in an envelope and was acknowledged.
C11_Witness ==
  \E c \in Connections :
    /\ Handled(c) /\ HasEnvelopeData(c)
    /\ DecodedData(c) = Str(<<LBRACE, LBRACE>>)
    /\ reply[c].status = 204
    /\ Logged(c, "Raw message data:")

\* C12: a webhook POST whose body is not JSON is accepted with a 2xx reply
\* and its raw text is logged.
C12_UnparseableWebhookAccepted ==
  \A c \in Connections :
    ( /\ stage[c] = "sent" /\ IsWebhookPost(request[c])
      /\ HasBody(request[c])
      /\ ParsedBody(request[c]).t = "throw" )
    => /\ reply[c].status \in 200..299
       /\ \E i \in 1..Len(console[c]) : console[c][i].args = <<request[c].body>>

\* The categories without a handler of their own on either path.
UnhandledCategories == {EventUpdated, ContactCreated, ContactUpdated, FolderDeleted}

CategoryName(type) ==
  CASE type = MessageCreated -> "message.created"
    [] type = MessageUpdated -> "message.updated"
    [] type = EventCreated -> "event.created"
    [] OTHER -> "default"

\* C14: a notification of category message.created, message.updated or
\* event.created runs that category's summary handler on the webhook path
\* and on the relay path alike; an event.created notification has its title,
\* calendar, time window and participant count summarized on both.
C14_DispatchPathIndependent ==
  \A c \in Connections :
    LET v == ReceivedNotification(c) IN
    ( /\ Handled(c) /\ PastVerification(c) /\ HasStringType(v)
      /\ v.f.type.s \in {MessageCreated, MessageUpdated, EventCreated} )
    => /\ case[c] = CategoryName(v.f.type.s)
       /\ (v.f.type.s = EventCreated /\ WellFormedNotification(v))
            => /\ Logged(c, "- Title:") /\ Logged(c, "- Calendar ID:")
               /\ Logged(c, "- Start:") /\ Logged(c, "- End:")
               /\ Logged(c, "- Participants:")

\* A fault is raised while the path of connection c processes the
\* notification it parsed.
ProcessingFaults(c) ==
  IF IsWebhookPost(request[c]) THEN Run(WebhookProcess(body[c])).threw
  ELSE HasEnvelopeData(c) /\ Run(PubSubProcess(DecodedData(c))).threw

\* C15: on both paths a fault raised while a parsed notification is
\* processed is answered 500; it is not logged as a parse failure and not
\* acknowledged.
C15_HandlerFaultIs500 ==
  \A c \in Connections :
    LET v == ReceivedNotification(c) IN
    ( /\ Handled(c) /\ PastVerification(c) /\ HasStringType(v)
      /\ ProcessingFaults(c) )
    => /\ reply[c].status = 500
       /\ ~Logged(c, "Error parsing Pub/Sub message data as JSON:")

\* A notification object whose type is missing or empty.
MissingCategory(v) == v.t = "object" /\ ~Truthy(Get(v, "type"))

C17_RoundTrip == decoded # Undef => decoded = Str(text)

\* A text of four bytes (one padding group) with a multi-byte character has
\* made the round trip.
C17_Witness ==
  /\ text = <<8364, 65>>
  /\ encoded = Str(Base64Encode(<<226, 130, 172, 65>>))
  /\ Len(encoded.s) = 8 /\ encoded.s[8] = B64Pad
  /\ decoded = Str(<<8364, 65>>)

(***************************************************************************)
(* Sending email                                                           *)
(***************************************************************************)
\* The send-email handler of connection c has run (to its reply, or to the
\* call it awaits).
MailHandled(c) ==
  /\ IsSendEmail(request[c])
  /\ stage[c] \in {"awaiting", "sent"}
  /\ ParsedBody(request[c]).t # "throw"

\* The request has no `to`, `subject` or `body` (absent or empty), or its
\* `to` is not a non-empty array.
LacksRequired(v) ==
  IF v.t \in {"undefined", "null"} THEN TRUE
  ELSE \/ \E k \in {"to", "subject", "body"} : ~Truthy(Get(v, k))
       \/ Get(v, "to").t # "array"
       \/ Get(v, "to") = Arr(<<>>)

ConfigurationError ==
  ErrorMessage("Configuration error", "Missing required environment variables")

IsRecipient(v) == v.t = "object" /\ "email" \in DOMAIN v.f /\ v.f.email.t = "string"

\* The optional field k is supplied in the form the README shows: cc and
\* bcc as non-empty arrays of recipients, reply_to as one recipient object.
SuppliedAsDocumented(v, k) ==
  /\ v.t = "object" /\ k \in DOMAIN v.f
  /\ IF k = "reply_to" THEN IsRecipient(v.f[k])
     ELSE /\ v.f[k].t = "array" /\ Len(v.f[k].a) > 0
          /\ \A i \in 1..Len(v.f[k].a) : IsRecipient(v.f[k].a[i])

\* C19: every optional field cc, bcc, reply_to supplied as the README shows
\* is part of the payload of the call made to the provider.
C19_OptionalFieldsIncluded ==
  \A c \in Connections :
    (MailHandled(c) /\ outbound[c] # NoCall)
    => \A k \in {"cc", "bcc", "reply_to"} :
         SuppliedAsDocumented(body[c], k) => k \in DOMAIN outbound[c].payload.f

(***************************************************************************)
(* The order of capture, verification and parsing                          *)
(***************************************************************************)
\* C20: on the webhook path the body is captured verbatim before it is
\* parsed: once the body has been parsed, request.rawBody already holds the
\* text as received, and it stays that text.
C20_RawBodyCapturedBeforeParse ==
  \A c \in Connections :
    ( /\ IsWebhookPost(request[c]) /\ HasBody(request[c])
      /\ stage[c] \in {"parsed", "preHandler", "sent"}
      /\ ParsedBody(request[c]).t # "throw" )
    => rawBody[c] = request[c].body

(***************************************************************************)
(* Authentication before classification and dispatch                       *)
(***************************************************************************)
\* The console lines of lines 139-162: the handler's output up to a
\* rejection by the signature check.
AuthenticationLabels ==
  { "Webhook signature:", "Webhook secret available:",
    "Raw body length for verification:", "Computed signature:",
    "Signature match:", "Invalid webhook signature",
    "Raw body not available for signature verification" }

\* The line that ends the verification step: passed, or skipped by policy.
VerificationSettled ==
  { Line("Webhook signature verified successfully", <<>>), SkipWarning }

\* The handler went on to read the notification: it logged a line past
\* the verification step, or it took a case of the switch.
ReachedProcessing(c) ==
  \/ case[c] # "none"
  \/ \E j \in 1..Len(console[c]) :
       console[c][j].line \notin AuthenticationLabels /\ console[c][j] \notin VerificationSettled

\* The signature header equals the digest of the saved body under the secret.
PassedVerification(c) ==
  /\ Truthy(env) /\ Truthy(request[c].signature) /\ Truthy(rawBody[c])
  /\ request[c].signature = ComputedSignature(env, rawBody[c])

SkippedByPolicy(c) == ~Truthy(env) \/ ~Truthy(request[c].signature)

\* C21: on the webhook path authentication comes before classification and
\* dispatch.  A request answered 400 or 401 ran no case of the switch and
\* logged nothing but the lines of the signature check; every line of the
\* processing comes after the line that settles the verification; and a
\* request that reached the processing passed the verification or had it
\* skipped because the secret or the signature is missing.
C21_AuthenticationPrecedesDispatch ==
  \A c \in Connections :
    (stage[c] = "sent" /\ IsWebhookPost(request[c])) =>
      /\ reply[c].status \in {400, 401} =>
           /\ case[c] = "none"
           /\ \A j \in 1..Len(console[c]) : console[c][j].line \in AuthenticationLabels
      /\ \A j \in 1..Len(console[c]) :
           (console[c][j].line \notin AuthenticationLabels
              /\ console[c][j] \notin VerificationSettled)
             => \E i \in 1..(j - 1) : console[c][i] \in VerificationSettled
      /\ ReachedProcessing(c) => (PassedVerification(c) \/ SkippedByPolicy(c))

\* A request with a matching signature ran a case of the switch.
C21_Witness ==
  \E c \in Connections :
    /\ stage[c] = "sent" /\ IsWebhookPost(request[c])
    /\ PassedVerification(c) /\ case[c] = "message.created"
    /\ Logged(c, "Webhook signature verified successfully")
    /\ Logged(c, "Processing notification type:")

(***************************************************************************)
(* The relay path has no signature step                                    *)
(***************************************************************************)
\* The status the relay answers a parsed request body with, read off the
\* body alone: 500 without an object to read, 400 for an envelope without
\* message or data, 500 for data that is not text, 204 otherwise.
RelayStatus(v) ==
  IF v.t \in {"undefined", "null"} THEN 500
  ELSE IF ~Truthy(Get(v, "message")) THEN 400
  ELSE IF ~Truthy(Get(Get(v, "message"), "data")) THEN 400
  ELSE IF Get(Get(v, "message"), "data").t # "string" THEN 500
  ELSE 204

\* C22: the relay path performs no signature step.  The response to
\* POST /pubsub/nylas is 204, 400 or 500 and never 401, it is the status
\* the request body alone determines, whatever the configured secret and
\* whatever the signature header, and no line of the signature check is
\* logged.
C22_RelayIgnoresSignature ==
  \A c \in Connections :
    (stage[c] = "sent" /\ IsPubSubPost(request[c])) =>
      /\ reply[c].status \in {204, 400, 500}
      /\ reply[c].status # 401
      /\ IF ParsedBody(request[c]).t = "throw"
         THEN reply[c].status \in ParserErrorStatuses
         ELSE reply[c].status = RelayStatus(ParsedBody(request[c]))
      /\ \A j \in 1..Len(console[c]) :
           console[c][j].line \notin AuthenticationLabels
           /\ console[c][j] \notin VerificationSettled

\* A relay request that would fail the webhook's check is accepted: a
\* secret is configured and the header is not the digest of the body.
C22_Witness ==
  \E c \in Connections :
    /\ stage[c] = "sent" /\ IsPubSubPost(request[c])
    /\ reply[c].status = 204 /\ case[c] = "message.created"
    /\ Truthy(env) /\ Truthy(request[c].signature)
    /\ request[c].signature # ComputedSignature(env, SavedRawBody(body[c]))

(***************************************************************************)
(* The canonical category of the relay path                                *)
(***************************************************************************)
\* The type with a trailing `.transformed` removed and nothing else.
WithoutTrailingMarker(s) ==
  IF Len(s) >= Len(TransformedSuffix)
     /\ SubSeq(s, Len(s) - Len(TransformedSuffix) + 1, Len(s)) = TransformedSuffix
  THEN SubSeq(s, 1, Len(s) - Len(TransformedSuffix))
  ELSE s

\* C23: the relay dispatches on the type with only a trailing
\* `.transformed` removed: a type that does not end in the marker is
\* matched unchanged, and a type in which the marker is followed by further
\* text, or occurs more than once, is not cut at the first occurrence.
C23_OnlyTrailingMarkerRemoved ==
  \A c \in Connections :
    LET v == ReceivedNotification(c) IN
    (Handled(c) /\ IsPubSubPost(request[c]) /\ HasStringType(v) /\ case[c] # "none")
    => case[c] = PubSubCase(Str(WithoutTrailingMarker(v.f.type.s)))

(***************************************************************************)
(* Concurrent requests: two connections served by the one process          *)
(***************************************************************************)
Clients == {1, 2}

\* The requests the two clients send: probes with and without a challenge,
\* a notification with no signature, with the digest of the text sent, of
\* the re-serialized text and of another secret, a second notification, a
\* relay envelope, an empty object on the relay, and a body that is not
\* JSON.
ConcurrentRequests ==
  LET sent == Str(DocText(DocCode(1), TRUE))
      other == Str(DocText(DocCode(Len(MsgObjects) + 1), FALSE))
      envelope == Str(DocText(DocCode(Len(NotificationTable) + 1), FALSE))
  IN  { Request("GET", "/webhook/nylas", ch, Undef, Undef) :
          ch \in {Undef, Str(<<"abc123">>)} }
      \cup { Request("POST", "/webhook/nylas", Undef, sig, sent) :
               sig \in { Undef, HexDigest(ConfiguredSecret.s, sent.s, FALSE),
                         HexDigest(ConfiguredSecret.s, Reserialized(sent).s, FALSE),
                         HexDigest(OtherSecret.s, sent.s, FALSE) } }
      \cup { Request("POST", "/webhook/nylas", Undef,
                     HexDigest(ConfiguredSecret.s, other.s, FALSE), other),
             Request("POST", "/pubsub/nylas", Undef, Undef, envelope),
             Request("POST", "/pubsub/nylas", Undef, Undef, Str(<<LBRACE, RBRACE>>)),
             Request("POST", "/webhook/nylas", Undef, Undef, Str(<<LBRACE, LBRACE>>)) }

ConcurrentInit ==
  /\ env \in Secrets
  /\ stage = [c \in Clients |-> "idle"]
  /\ request = [c \in Clients |-> NoRequest]
  /\ body = [c \in Clients |-> Undef]
  /\ rawBody = [c \in Clients |-> Undef]
  /\ reply = [c \in Clients |-> NoReply]
  /\ console = [c \in Clients |-> <<>>]
  /\ case = [c \in Clients |-> "none"]
  /\ config = FullConfig
  /\ outbound = [c \in Clients |-> NoCall]
  /\ text = <<>>
  /\ encoded = Undef
  /\ decoded = Undef
  /\ subscription = NoSubscription
  /\ listening = TRUE
  /\ script = NoScript

\* The steps of the two requests interleave in any order.
ConcurrentNext ==
  \E c \in Clients :
    \/ \E r \in ConcurrentRequests : Receive(c, r)
    \/ ContentTypeParser(c)
    \/ \E status \in ParserErrorStatuses : ContentTypeParserError(c, status)
    \/ PreHandler(c)
    \/ GetWebhook(c)
    \/ PostWebhook(c)
    \/ PostPubSub(c)
    \/ Complete(c)

ConcurrentSpec == ConcurrentInit /\ [][ConcurrentNext]_vars

\* What a request served alone is answered with, under the secret: the
\* reply, the console output and the case run.  The framework's answer to
\* a body that is not JSON is one of its error statuses.
ServedAlone(r, secret) ==
  LET parsed == ParsedBody(r) IN
  IF parsed.t = "throw"
  THEN { Outcome(Reply(status, "application/json", ErrorBody("SyntaxError")), <<>>, "none") :
           status \in ParserErrorStatuses }
  ELSE IF r.method = "GET" THEN { WebhookGet(r.challenge) }
  ELSE IF r.url = "/webhook/nylas"
  THEN { WebhookPost(parsed, r.signature, secret, SavedRawBody(parsed)) }
  ELSE { PubSubPost(parsed) }

\* What belongs to the exchange on a connection.
Exchange(c) ==
  <<stage[c], request[c], body[c], rawBody[c], reply[c], console[c], case[c], outbound[c]>>

\* C24: concurrent requests do not interfere.  Under every interleaving of
\* the steps of webhook, relay and challenge requests on two connections,
\* the response of a request is the one it gets when served alone, from
\* its own method, headers, query and body and the configured secret; a
\* request past the hooks has a route that answers it; a step taken for one
\* request leaves the other exchange as it is; a response is sent once and
\* not changed until the exchange is over; and the secret is never changed.
C24_NoInterference ==
  /\ [](\A c \in Clients :
          /\ (stage[c] = "sent") <=> (reply[c] # NoReply)
          /\ stage[c] = "sent" =>
               Outcome(reply[c], console[c], case[c]) \in ServedAlone(request[c], env)
          /\ stage[c] = "preHandler" =>
               \/ IsWebhookGet(request[c])
               \/ IsWebhookPost(request[c])
               \/ IsPubSubPost(request[c]))
  /\ [][/\ env' = env
        /\ \A c \in Clients :
             /\ reply[c] # NoReply =>
                  \/ reply'[c] = reply[c] /\ request'[c] = request[c]
                  \/ stage'[c] = "idle" /\ reply'[c] = NoReply
             /\ Exchange(c)' # Exchange(c) =>
                  \A d \in Clients \ {c} : Exchange(d)' = Exchange(d)]_vars

\* A request is rejected for its signature while the request on the other
\* connection, verified in between, has been accepted.
C24_Witness ==
  /\ stage[1] = "sent" /\ reply[1].status = 401
  /\ stage[2] = "sent" /\ reply[2].status = 200 /\ case[2] = "message.created"
  /\ Logged(2, "Webhook signature verified successfully")

(***************************************************************************)
(* Processing a notification changes nothing but the log                   *)
(***************************************************************************)
\* The connection carries a delivery: a POST whose body was parsed.
IsDelivery(c) ==
  /\ IsWebhookPost(request[c]) \/ IsPubSubPost(request[c])
  /\ ParsedBody(request[c]).t # "throw"

\* C25: processing a notification changes no state other than the log.
\* The step in which a handler runs writes the reply, the console output
\* and the case of its own exchange and nothing else; the secret and the
\* provider configuration never change and no call leaves the server; and
\* a delivery repeated on another connection, the same notification with
\* the same id, is answered and logged as the first one was, whatever was
\* delivered in between.
C25_OnlyTheLogChanges ==
  /\ [](\A c \in Clients : outbound[c] = NoCall)
  /\ [](\A c, d \in Clients :
          (stage[c] = "sent" /\ stage[d] = "sent" /\ IsDelivery(c)
             /\ request[d] = request[c])
          => reply[d] = reply[c] /\ console[d] = console[c] /\ case[d] = case[c])
  /\ [][/\ env' = env /\ config' = config
        /\ \A c \in Clients :
             (stage[c] = "preHandler" /\ stage'[c] = "sent") =>
               /\ request' = request /\ body' = body /\ rawBody' = rawBody
               /\ outbound' = outbound
               /\ \A d \in Clients \ {c} : Exchange(d)' = Exchange(d)]_vars

\* The same notification delivered twice, both deliveries acknowledged.
C25_Witness ==
  /\ stage[1] = "sent" /\ stage[2] = "sent"
  /\ IsWebhookPost(request[1]) /\ request[2] = request[1]
  /\ body[1].t = "object" /\ Get(body[1], "id").t = "string"
  /\ reply[1].status = 200 /\ reply[2] = reply[1]
  /\ case[1] = "message.created"

(***************************************************************************)
(* The setup scripts (src/setup-ngrok.ts and the setup-pubsub.ts script    *)
(* kept in src/pull-messages.ts) against the cloud project and the server  *)
(***************************************************************************)
\* What the tunnel API on port 4040 answers: nothing (connection refused),
\* or its list of tunnels: empty, plain http only, https, or both, under
\* one of two public URLs.
TunnelResponses ==
  {[ok |-> FALSE, tunnels |-> <<>>], [ok |-> TRUE, tunnels |-> <<>>]}
  \cup {[ok |-> TRUE, tunnels |-> t] :
          t \in UNION {{ <<[proto |-> "http", public_url |-> u]>>,
                         <<[proto |-> "https", public_url |-> u]>>,
                         <<[proto |-> "http", public_url |-> u],
                           [proto |-> "https", public_url |-> u]>> } : u \in {"https://a.ngrok.app", "https://b.ngrok.app"}}}

\* The routes index.ts registers (lines 105-358); the framework answers
\* every other method and path with 404.
RouteStatus(method, url) ==
  IF <<method, url>> \in { <<"POST", "/">>, <<"GET", "/webhook/nylas">>,
                           <<"POST", "/webhook/nylas">>, <<"POST", "/pubsub/nylas">>,
                           <<"POST", "/api/send-email">> }
  THEN 200 ELSE 404

\* The three commands of both scripts: describe and delete inside the inner
\* try, whose catch takes a failure of either; then create.  `failing` are
\* the commands that fail for reasons of their own; describe also fails
\* when there is no subscription, create when there still is one.  A
\* command that fails changes nothing; `failed` are the commands that ran
\* and threw.
Configure(existing, endpoint, failing) ==
  LET described == existing # NoSubscription /\ "describe" \notin failing
      deleted == described /\ "delete" \notin failing
      remaining == IF deleted THEN NoSubscription ELSE existing
      created == remaining = NoSubscription /\ "create" \notin failing
  IN  [ subscription |-> IF created THEN endpoint ELSE remaining,
        threw |-> ~created,
        failed |-> (IF described THEN {} ELSE {"describe"})
                   \cup (IF described /\ ~deleted THEN {"delete"} ELSE {})
                   \cup (IF created THEN {} ELSE {"create"}),
        log |-> (IF described THEN <<"already exists. Deleting it first...">> ELSE <<>>)
                \o (IF deleted THEN <<>> ELSE <<"does not exist yet. Creating it...">>)
                \o <<"Running: gcloud pubsub subscriptions create">>
                \o (IF created THEN <<"Success! Pub/Sub push subscription created:">>
                    ELSE <<>>) ]

\* A script is started; one runs at a time.  setup-pubsub.ts has its
\* endpoint written into it (line 110).
Launch(kind) ==
  /\ script.pc \in {"idle", "done", "exit(1)"}
  /\ script' = [kind |-> kind, log |-> <<>>, failed |-> {},
                pc |-> IF kind = "setup-ngrok" THEN "detect" ELSE "configure",
                endpoint |-> IF kind = "setup-ngrok" THEN <<>>
                             ELSE <<"https://3eb9ff9f3873.ngrok.app", "/pubsub/nylas">>]
  /\ UNCHANGED <<env, stage, request, body, rawBody, reply, console, case, config,
                 outbound, text, encoded, decoded, subscription, listening>>

\* setup-ngrok.ts lines 30-52: the tunnel is looked up and the endpoint built.
DetectTunnel(response) ==
  /\ script.pc = "detect"
  /\ LET tunnels == response.tunnels
         secure == {i \in 1..Len(tunnels) : tunnels[i].proto = "https"}
         secureTunnel == tunnels[CHOOSE i \in secure : \A j \in secure : i <= j]
     IN  script' =
           IF ~response.ok
           THEN [script EXCEPT !.pc = "exit(1)",
                               !.log = <<"Error setting up Pub/Sub with ngrok:",
                                         "ngrok does not appear to be running">>]
           ELSE IF tunnels = <<>>
           THEN [script EXCEPT !.pc = "exit(1)",
                               !.log = <<"Error setting up Pub/Sub with ngrok:",
                                         "No active ngrok tunnels found">>]
           ELSE IF secure = {}
           THEN [script EXCEPT !.pc = "exit(1)",
                               !.log = <<"Error setting up Pub/Sub with ngrok:",
                                         "No secure (HTTPS) ngrok tunnel found">>]
           ELSE [script EXCEPT !.pc = "configure",
                               !.endpoint = <<secureTunnel.public_url, "/pubsub/nylas">>,
                               !.log = <<"Found ngrok tunnel">>]
  /\ UNCHANGED <<env, stage, request, body, rawBody, reply, console, case, config,
                 outbound, text, encoded, decoded, subscription, listening>>

\* setup-ngrok.ts lines 59-86 and setup-pubsub.ts lines 118-156: the
\* synchronous gcloud commands.  setup-pubsub.ts ends with a describe of the
\* subscription it created.
ConfigureSubscription(failing) ==
  /\ script.pc = "configure"
  /\ LET run == Configure(subscription, script.endpoint, failing)
         verified == "verify" \notin failing
         failure == <<"Error setting up Pub/Sub subscription:">>
     IN  /\ subscription' = run.subscription
         /\ script' =
              IF run.threw
              THEN [script EXCEPT !.pc = "exit(1)", !.failed = run.failed,
                                  !.log = @ \o run.log \o failure]
              ELSE IF script.kind = "setup-ngrok"
              THEN [script EXCEPT !.pc = "verify", !.failed = run.failed,
                                  !.log = @ \o run.log]
              ELSE IF verified
              THEN [script EXCEPT !.pc = "done", !.failed = run.failed,
                                  !.log = @ \o run.log \o <<"Setup complete!">>]
              ELSE [script EXCEPT !.pc = "exit(1)", !.failed = run.failed \cup {"verify"},
                                  !.log = @ \o run.log \o failure]
  /\ UNCHANGED <<env, stage, request, body, rawBody, reply, console, case, config,
                 outbound, text, encoded, decoded, listening>>

\* setup-ngrok.ts lines 88-99: axios.get on the root of port 3002 rejects
\* when nothing listens and for every status outside 200..299.
VerifyServer ==
  /\ script.pc = "verify"
  /\ LET status == RouteStatus("GET", "/")
         resolved == listening /\ status >= 200 /\ status < 300
     IN  script' =
           [script EXCEPT
              !.pc = "done",
              !.log = @ \o <<IF resolved
                             THEN "Fastify server is running on port 3002"
                             ELSE "Warning: Fastify server does not appear to be running on port 3002.",
                             "Setup complete!">>]
  /\ UNCHANGED <<env, stage, request, body, rawBody, reply, console, case, config,
                 outbound, text, encoded, decoded, subscription, listening>>

SetupInit ==
  /\ env = Undef
  /\ stage = [c \in Connections |-> "idle"]
  /\ request = [c \in Connections |-> NoRequest]
  /\ body = [c \in Connections |-> Undef]
  /\ rawBody = [c \in Connections |-> Undef]
  /\ reply = [c \in Connections |-> NoReply]
  /\ console = [c \in Connections |-> <<>>]
  /\ case = [c \in Connections |-> "none"]
  /\ config = FullConfig
  /\ outbound = [c \in Connections |-> NoCall]
  /\ text = <<>>
  /\ encoded = Undef
  /\ decoded = Undef
  /\ subscription = NoSubscription
  /\ listening \in BOOLEAN
  /\ script = NoScript

SetupNext ==
  \/ \E kind \in {"setup-ngrok", "setup-pubsub"} : Launch(kind)
  \/ \E response \in TunnelResponses : DetectTunnel(response)
  \/ \E failing \in SUBSET {"describe", "delete", "create", "verify"} :
       ConfigureSubscription(failing)
  \/ VerifyServer

SetupSpec == SetupInit /\ [][SetupNext]_vars

(***************************************************************************)
(* Claims about the setup scripts                                          *)
(***************************************************************************)
ScriptLogged(line) == \E i \in 1..Len(script.log) : script.log[i] = line

\* C26: the setup scripts create or update the push subscription.  After a
\* run that ends in success the subscription of the configured name exists
\* and pushes to the endpoint of this run, whether or not one existed
\* before; and a run in which deleting the existing subscription failed
\* does not report the subscription as not existing and does not end in
\* success.
C26_CreateOrUpdate ==
  /\ script.pc = "done" =>
       subscription # NoSubscription /\ subscription = script.endpoint
  /\ "delete" \in script.failed =>
       /\ ~ScriptLogged("does not exist yet. Creating it...")
       /\ script.pc \notin {"verify", "done"}

\* C27: setup-ngrok.ts verifies that the server is running.  Whenever the
\* server of index.ts listens on port 3002, the check of a run that got to
\* it reports the server as running and does not print the warning that it
\* does not appear to be running.
C27_ServerCheckSeesServer ==
  (script.kind = "setup-ngrok" /\ script.pc = "done" /\ listening) =>
    /\ ScriptLogged("Fastify server is running on port 3002")
    /\ ~ScriptLogged("Warning: Fastify server does not appear to be running on port 3002.")

====
